---- MODULE Spec2Model ----
(***************************************************************************)
(* NanOS storage core: the ext2 driver (src/src/ext2.c) and the VFS facade *)
(* (src/src/vfs.c) over a RAM-backed block device.                         *)
(*                                                                         *)
(* The device is modelled at byte level for data blocks (directory records *)
(* and file contents are the same bytes on disk), and structurally for the *)
(* bitmaps and the inode table.  The block size is scaled down: it stays a *)
(* multiple of 4, as every ext2 block size is.                             *)
(***************************************************************************)
EXTENDS Integers, Sequences, FiniteSets, TLC

(***************************************************************************)
(* Bounds of the model.                                                    *)
(***************************************************************************)
BlockWords == 12            \* block_size / 4 of an image with s_log_block_size = 0
NumFreeBlocks == 3          \* data blocks free on the fresh image
NumFreeInodes == 3          \* inodes free on the fresh image
MaxHandles == 2             \* open-file handles alive at once
MaxOps == 4                 \* VFS calls in one run
MaxOpsIO == 5               \* VFS calls in one run of the file I/O caller
MaxChain == 10              \* names the symlink-chain caller makes
MaxOpsChain == 12           \* VFS calls in one run of the symlink-chain caller
DiskBlocks == 3             \* block_count of the stand-alone RAM disk
SectorBytes == 2            \* RAMDISK_BLOCK_SIZE of the stand-alone RAM disk
MaxOpsDisk == 4             \* device calls in one run of the RAM disk caller
BigFree == 13               \* data blocks free on the image of the large-file caller
MaxOpsBig == 6              \* VFS calls in one run of the large-file caller
NumDevices == 2             \* block devices the mounting caller holds
MaxOpsMount == 4            \* calls in one run of the mounting caller
MaxOpsFill == 5             \* creates in one run of the filling caller
FullInodes == 47            \* inodes free on the image of the caller that fills a directory
MaxOpsFull == 50            \* VFS calls in one run of that caller
MaxOpsStale == 6            \* VFS calls in one run of the caller that keeps handles across an unlink
AllocPerGroup == 4          \* blocks per group on the image of the allocator caller
AllocInodesPerGroup == 3    \* inodes per group on that image
MaxOpsAlloc == 5            \* allocator calls in one run of that caller
MaxTarget == 70             \* longest target of the symlink caller
MaxOpsLink == 3             \* VFS calls in one run of the symlink caller
MaxProcs == 3               \* heap blocks that can hold a process_t
MaxSleep == 3               \* ticks a process of the scheduler caller sleeps
MaxOpsSched == 7            \* steps in one run of the scheduler caller
Prefill == 6                \* messages already queued in some runs of the IPC caller
MaxOpsIPC == 8              \* steps in one run of the IPC caller

(***************************************************************************)
(* Program constants.                                                      *)
(***************************************************************************)
EXT2_ROOT_INO == 2
EXT2_FIRST_INO == 11
EXT2_S_IFDIR == 16384       \* 0x4000
EXT2_S_IFLNK == 40960       \* 0xA000
EXT2_S_IFREG == 32768       \* 0x8000
EXT2_FT_REG_FILE == 1
EXT2_FT_DIR == 2
EXT2_FT_SYMLINK == 7
VFS_TYPE_FILE == 1
VFS_TYPE_DIR == 2
VFS_TYPE_SYMLINK == 3
MAX_SYMLINK_DEPTH == 8
EXT2_MAGIC == 61267         \* 0xEF53
EXT2_SUPERBLOCK_OFFSET == 1024
RAMDISK_BLOCK_SIZE == 512
NDIRECT == 12               \* direct pointers i_block[0..11]
NIBLOCK == 15               \* uint32_t i_block[15]
MODE_FILE == 420            \* 0644
MODE_DIR == 493             \* 0755
MODE_LNK == 511             \* 0777
MAX_NAME == 255
FAST_SYMLINK_MAX == 60
SLASH == 47                 \* '/'
DOT == 46                   \* '.'
UINT16 == 65536
s_first_data_block == 1     \* 1 KiB blocks: the superblock is block 1

VARIABLES
    global_fs,      \* the mounted filesystem: the device it was read from, 0 for NULL
    superblock,     \* fs->superblock: the in-memory free counters
    on_disk,        \* the free counts in the superblock and descriptor blocks of the device
    block_groups,   \* fs->block_groups: per group free counters
    block_bitmap,   \* the block bitmap of each group, on the device
    inode_bitmap,   \* the inode bitmap of each group, on the device
    inode_table,    \* the inode records, on the device
    blocks,         \* the data blocks, on the device
    files,          \* the open vfs_file_t handles
    last,           \* the last VFS call: its arguments and what it returned
    created,        \* path -> inode of the last successful vfs_create not yet unlinked
                    \* (allocator caller: number -> 1 while handed out and not freed)
    nops,           \* VFS calls made so far
    process_list,   \* sched.c: head of the circular process list, 0 for NULL
    current,        \* sched.c: the running process, 0 for NULL
    need_resched,   \* sched.c: set by the timer interrupt
    system_ticks,   \* sched.c: timer interrupts so far (uint32_t)
    next_pid,       \* process.c: the pid the next process_create gives out
    procs,          \* heap memory: address -> process_t, kept as it was after kfree
    heap_used,      \* the addresses kmalloc has handed out and kfree has not taken back
    halted,         \* the processes inside the hlt loop that ends process_exit
    panic           \* the kernel has read through NULL or walks a list that never closes

vars == <<global_fs, superblock, on_disk, block_groups, block_bitmap, inode_bitmap, inode_table, blocks,
          files, last, created, nops,
          process_list, current, need_resched, system_ticks, next_pid, procs, heap_used, halted,
          panic>>

schedvars == <<process_list, current, need_resched, system_ticks, next_pid, procs, heap_used,
               halted, panic>>

\* scheduler_init and process_init, on the heap heap_init leaves
scheduler_init ==
    /\ process_list = 0
    /\ current = 0
    /\ need_resched = 0
    /\ system_ticks = 0
    /\ next_pid = 1
    /\ procs = <<>>
    /\ heap_used = {}
    /\ halted = {}
    /\ panic = FALSE

(***************************************************************************)
(* Image layout (one block group, as mke2fs lays out a small image):       *)
(* 0 boot, 1 superblock, 2 group descriptors, 3 block bitmap, 4 inode      *)
(* bitmap, 5 inode table, 6 root directory, then free data blocks.         *)
(***************************************************************************)
\* EXT2_BLOCK_SIZE: 1024 << s_log_block_size, with 4 * BlockWords for 1024
block_size == (4 * BlockWords) * 2^(superblock.s_log_block_size)

ROOT_BLOCK == s_first_data_block + 5
\* the superblock's fields, read once by ext2_init; no call changes them
s_blocks_count == superblock.s_blocks_count
s_inodes_count == EXT2_FIRST_INO - 1 + NumFreeInodes
blocks_per_group == superblock.s_blocks_per_group
inodes_per_group == s_inodes_count
num_block_groups == (s_blocks_count + blocks_per_group - 1) \div blocks_per_group
Groups == 0 .. (num_block_groups - 1)
DataBlocks == ROOT_BLOCK .. (s_blocks_count - 1)

Min(a, b) == IF a < b THEN a ELSE b
Max(a, b) == IF a > b THEN a ELSE b

(***************************************************************************)
(* Bytes.  A buffer is a sequence of bytes; C offsets are 0-based.  A read *)
(* past the end of a heap buffer yields oob, a byte the caller does not    *)
(* control; a write past the end of the block buffer never reaches the     *)
(* device.                                                                 *)
(***************************************************************************)
Peek(buf, off, oob) == IF off < Len(buf) THEN buf[off + 1] ELSE oob
U16(buf, off, oob) == Peek(buf, off, oob) + 256 * Peek(buf, off + 1, oob)
U32(buf, off, oob) ==
    U16(buf, off, oob) + 65536 * U16(buf, off + 2, oob)
LE(n, k) == [i \in 1..k |-> (n \div (256 ^ (i - 1))) % 256]
Poke(buf, off, bytes) ==
    [i \in 1..Len(buf) |->
        IF i - 1 >= off /\ i - 1 < off + Len(bytes) THEN bytes[i - off] ELSE buf[i]]
ZeroBlock == [i \in 1..block_size |-> 0]
\* C string held in a byte sequence: the bytes before the first NUL
RECURSIVE CStr(_)
CStr(b) == IF b = <<>> \/ Head(b) = 0 THEN <<>> ELSE <<Head(b)>> \o CStr(Tail(b))


(***************************************************************************)
(* The mounted filesystem as one record s:                                 *)
(*   sb   in-memory superblock counters (fs->superblock)                   *)
(*   bg   in-memory group descriptors (fs->block_groups)                   *)
(*   bbm, ibm  the block / inode bitmap blocks on the device, per group    *)
(*   itab the inode table on the device                                    *)
(*   blk  the data blocks on the device                                    *)
(***************************************************************************)
ZeroInode ==
    [i_mode |-> 0, i_uid |-> 0, i_gid |-> 0, i_links_count |-> 0, i_size |-> 0,
     i_block |-> [k \in 0..(NIBLOCK - 1) |-> 0]]

\* 32-bit quantities: paths and targets are ASCII and files span at most 12
\* blocks, so every uint32_t of a reachable state is below 2^31 and no 32-bit
\* sum or product of the calls modelled here wraps; they are written plainly.
\* The 16-bit link and group counters keep their width.

\* blockdev_read through ext2_read_blocks: fs block b is device blocks 2b, 2b+1,
\* in range iff 2b + 2 <= 2 * s_blocks_count.  No data path hands a metadata
\* block (below ROOT_BLOCK) to these: block numbers come from ext2_alloc_block
\* or from symlink bytes, which lie past the device.
InDevice(b) == b + 1 <= s_blocks_count

\* The block-device writes a call issues, in order: s.writes records each
\* ext2_write_blocks by what it writes -- a data block, a block of the inode
\* table (for one inode), or a bitmap block.
\* Each record carries what is written: the block's bytes, the inode record,
\* or the bit of the bitmap that changes (map "stray": a bitmap block read
\* through a descriptor past the array, not one of the filesystem's).
BlockWrite(b, buf) == [class |-> "block", n |-> b, buf |-> buf]
InodeWrite(inode_num, inode) == [class |-> "inode", n |-> inode_num, inode |-> inode]
BitmapWrite(map, group, index, bit) ==
    [class |-> "bitmap", n |-> 0, map |-> map, group |-> group, index |-> index, bit |-> bit]

ext2_read_blocks(s, b) ==
    IF InDevice(b) /\ b \in DataBlocks
    THEN [res |-> 0, buf |-> s.blk[b]]
    ELSE [res |-> -1, buf |-> <<>>]

ext2_write_blocks(s, b, buf) ==
    IF InDevice(b) /\ b \in DataBlocks
    THEN [res |-> 0, s |-> [s EXCEPT !.blk[b] = buf, !.writes = Append(@, BlockWrite(b, buf))]]
    ELSE [res |-> -1, s |-> s]

\* fs->inodes_per_group is the superblock's s_inodes_per_group (ext2_init)
ext2_read_inode(s, inode_num) ==
    IF inode_num = 0 \/ (inode_num - 1) \div s.sb.s_inodes_per_group >= num_block_groups
    THEN [res |-> -1, inode |-> ZeroInode]
    ELSE [res |-> 0, inode |-> s.itab[inode_num]]

ext2_write_inode(s, inode_num, inode) ==
    IF inode_num = 0 \/ (inode_num - 1) \div s.sb.s_inodes_per_group >= num_block_groups
    THEN [res |-> -1, s |-> s]
    ELSE [res |-> 0, s |-> [s EXCEPT !.itab[inode_num] = inode,
                                   !.writes = Append(@, InodeWrite(inode_num, inode))]]

(***************************************************************************)
(* Allocators.                                                             *)
(***************************************************************************)
ClearBits(bm) == {i \in DOMAIN bm : bm[i] = 0}
LowestClear(bm) == CHOOSE i \in ClearBits(bm) : \A j \in ClearBits(bm) : i <= j
GroupsWithFree(bms) == {g \in Groups : ClearBits(bms[g]) # {}}
FirstGroupWithFree(bms) ==
    CHOOSE g \in GroupsWithFree(bms) : \A h \in GroupsWithFree(bms) : g <= h

\* ext2_alloc_block without the write of the bitmap
AllocBlockKeepsBit(s) ==
    IF GroupsWithFree(s.bbm) = {} THEN [ret |-> 0, s |-> s]
    ELSE LET group == FirstGroupWithFree(s.bbm)
             i == LowestClear(s.bbm[group])
         IN [ret |-> group * blocks_per_group + i + s_first_data_block,
             s |-> [s EXCEPT !.bg[group].bg_free_blocks_count = (@ + UINT16 - 1) % UINT16,
                             !.sb.s_free_blocks_count = @ - 1]]

ext2_alloc_block(s) ==
    IF GroupsWithFree(s.bbm) = {} THEN [ret |-> 0, s |-> s]
    ELSE LET group == FirstGroupWithFree(s.bbm)
             i == LowestClear(s.bbm[group])
         IN [ret |-> group * blocks_per_group + i + s_first_data_block,
             s |-> [s EXCEPT !.bbm[group][i] = 1,
                             !.bg[group].bg_free_blocks_count = (@ + UINT16 - 1) % UINT16,
                             !.sb.s_free_blocks_count = @ - 1,
                             !.writes = Append(@, BitmapWrite("block", group, i, 1))]]

\* A block number whose group lies past the descriptor array makes
\* ext2_free_block index fs->block_groups out of range: what it then reads as
\* the bitmap block is not the filesystem's.  ub tells whether that stray
\* read-modify-write went through (the counters are then incremented) or failed.
ext2_free_block(s, block_num, ub) ==
    IF block_num < s_first_data_block THEN [res |-> -1, s |-> s]
    ELSE LET rel == block_num - s_first_data_block
             group == rel \div blocks_per_group
             index == rel % blocks_per_group
         IN IF group \in Groups
            THEN [res |-> 0,
                  s |-> [s EXCEPT !.bbm[group][index] = 0,
                                  !.bg[group].bg_free_blocks_count = (@ + 1) % UINT16,
                                  !.sb.s_free_blocks_count = @ + 1,
                                  !.writes = Append(@, BitmapWrite("block", group, index, 0))]]
            ELSE IF ub
                 THEN [res |-> 0,
                       s |-> [s EXCEPT !.sb.s_free_blocks_count = @ + 1,
                                       !.writes = Append(@, BitmapWrite("stray", group, index, 0))]]
                 ELSE [res |-> -1, s |-> s]

ext2_alloc_inode(s) ==
    IF GroupsWithFree(s.ibm) = {} THEN [ret |-> 0, s |-> s]
    ELSE LET group == FirstGroupWithFree(s.ibm)
             i == LowestClear(s.ibm[group])
         IN [ret |-> group * s.sb.s_inodes_per_group + i + 1,
             s |-> [s EXCEPT !.ibm[group][i] = 1,
                             !.bg[group].bg_free_inodes_count = (@ + UINT16 - 1) % UINT16,
                             !.sb.s_free_inodes_count = @ - 1,
                             !.writes = Append(@, BitmapWrite("inode", group, i, 1))]]

\* callers only pass inode numbers that ext2_read_inode or ext2_alloc_inode accepted
ext2_free_inode(s, inode_num) ==
    IF inode_num = 0 THEN [res |-> -1, s |-> s]
    ELSE LET group == (inode_num - 1) \div s.sb.s_inodes_per_group
             index == (inode_num - 1) % s.sb.s_inodes_per_group
         IN [res |-> 0,
             s |-> [s EXCEPT !.ibm[group][index] = 0,
                             !.bg[group].bg_free_inodes_count = (@ + 1) % UINT16,
                             !.sb.s_free_inodes_count = @ + 1,
                             !.writes = Append(@, BitmapWrite("inode", group, index, 0))]]

(***************************************************************************)
(* Mode tests, as the code writes them.                                    *)
(***************************************************************************)
BitSet(x, b) == (x \div b) % 2 = 1
IsDirMode(mode) == BitSet(mode, 16384)                          \* (m & IFDIR) == IFDIR
IsLnkMode(mode) == BitSet(mode, 32768) /\ BitSet(mode, 8192)     \* (m & IFLNK) == IFLNK

vfs_get_type_from_mode(mode) ==
    IF IsDirMode(mode) THEN VFS_TYPE_DIR
    ELSE IF IsLnkMode(mode) THEN VFS_TYPE_SYMLINK
    ELSE VFS_TYPE_FILE

(***************************************************************************)
(* Data-block mapping and file read.                                       *)
(***************************************************************************)
ext2_read_data_block(s, inode, block_index) ==
    LET fail == [res |-> -1, buf |-> <<>>]
    IN IF block_index < NDIRECT
       THEN IF inode.i_block[block_index] = 0 THEN fail
            ELSE ext2_read_blocks(s, inode.i_block[block_index])
       ELSE IF block_index < NDIRECT + (block_size \div 4)
       THEN IF inode.i_block[12] = 0 THEN fail
            ELSE LET ind == ext2_read_blocks(s, inode.i_block[12])
                 IN IF ind.res # 0 THEN fail
                    ELSE LET block_num == U32(ind.buf, 4 * (block_index - NDIRECT), 0)
                         IN IF block_num = 0 THEN fail ELSE ext2_read_blocks(s, block_num)
       ELSE fail

\* A uint32_t that may be large (the size a caller asks to read) is held in
\* the 32 bits of a TLC integer: u below 2^31 as u, u from 2^31 on as
\* u - 2^32.  ULess is < on the unsigned values, Add32 and Sub32 are + and -
\* modulo 2^32.
MinInt32 == -2147483647 - 1
MaxInt32 == 2147483647
ULess(a, b) == IF (a < 0) = (b < 0) THEN a < b ELSE b < 0
Add32(a, b) ==
    IF a >= 0 /\ b >= 0 /\ a > MaxInt32 - b THEN (a + MinInt32) + (b + MinInt32)
    ELSE IF a < 0 /\ b < 0 /\ a < MinInt32 - b THEN (a - MinInt32) + (b - MinInt32)
    ELSE a + b
Sub32(a, b) == IF b = MinInt32 THEN Add32(a, b) ELSE Add32(a, -b)
UMin(a, b) == IF ULess(b, a) THEN b ELSE a

\* bytes [offset, offset + size) of the file, block by block; res is the byte
\* count returned, or -1, and buf the bytes copied to the caller's buffer
RECURSIVE ReadLoop(_, _, _, _, _)
ReadLoop(s, inode, offset, size, bytes_read) ==
    IF ~ULess(bytes_read, size) THEN [res |-> bytes_read, buf |-> <<>>]
    ELSE LET block_index == (offset + bytes_read) \div block_size
             block_offset == (offset + bytes_read) % block_size
             bytes_to_read == UMin(block_size - block_offset, Sub32(size, bytes_read))
             blk == ext2_read_data_block(s, inode, block_index)
         IN IF blk.res # 0 THEN [res |-> -1, buf |-> <<>>]
            ELSE LET rest == ReadLoop(s, inode, offset, size, bytes_read + bytes_to_read)
                 IN [res |-> rest.res,
                     buf |-> SubSeq(blk.buf, block_offset + 1, block_offset + bytes_to_read)
                             \o rest.buf]

ext2_read_file(s, inode, offset, size) ==
    IF ~ULess(offset, inode.i_size) THEN [res |-> 0, buf |-> <<>>]
    ELSE LET clipped == IF ULess(inode.i_size, Add32(offset, size))
                        THEN inode.i_size - offset ELSE size
         IN ReadLoop(s, inode, offset, clipped, 0)

(***************************************************************************)
(* Directory records: inode (4) rec_len (2) name_len (1) file_type (1)     *)
(* name.  All walks go by rec_len strides over the raw bytes.              *)
(***************************************************************************)
Round4(n) == ((n + 3) \div 4) * 4
NameBytes(buf, off, n, oob) == [i \in 1..n |-> Peek(buf, off + 8 + i - 1, oob)]
DirEntryBytes(inode_num, rec_len, name, type) ==
    LE(inode_num, 4) \o LE(rec_len % UINT16, 2) \o <<Len(name) % 256, type>> \o name

\* kmalloc(dir_size) then ext2_read_file of the whole directory; kmalloc(0) is NULL
WholeFile(size, r) == IF r.res # size THEN [res |-> -1, buf |-> <<>>] ELSE r
ReadDir(s, dir_inode) ==
    IF dir_inode.i_size = 0 THEN [res |-> -1, buf |-> <<>>]
    ELSE WholeFile(dir_inode.i_size, ext2_read_file(s, dir_inode, 0, dir_inode.i_size))

RECURSIVE FindLoop(_, _, _, _)
FindLoop(buf, offset, name, oob) ==
    IF offset >= Len(buf) THEN 0
    ELSE LET rec_len == U16(buf, offset + 4, oob)
             name_len == Peek(buf, offset + 6, oob)
             inode == U32(buf, offset, oob)
         IN IF rec_len = 0 THEN 0
            ELSE IF inode # 0 /\ name_len = Len(name)
                    /\ CStr(NameBytes(buf, offset, name_len, oob)) = name
                 THEN inode
                 ELSE FindLoop(buf, offset + rec_len, name, oob)

\* the walk over the directory bytes d that ReadDir produced
FindIn(d, name, oob) == IF d.res = -1 THEN 0 ELSE FindLoop(d.buf, 0, name, oob)
FindResult(found) ==
    IF found = 0 THEN [res |-> -1, inode |-> 0] ELSE [res |-> 0, inode |-> found]

ext2_find_dir_entry(s, dir_inode, name, oob) ==
    IF ~IsDirMode(dir_inode.i_mode) THEN [res |-> -1, inode |-> 0]
    ELSE FindResult(FindIn(ReadDir(s, dir_inode), name, oob))

\* number of live entries whose name is neither "." nor ".."
RECURSIVE CountOthers(_, _, _)
CountOthers(buf, offset, oob) ==
    IF offset >= Len(buf) THEN 0
    ELSE LET rec_len == U16(buf, offset + 4, oob)
             name_len == Peek(buf, offset + 6, oob)
             inode == U32(buf, offset, oob)
             entry_name == CStr(NameBytes(buf, offset, name_len, oob))
         IN IF rec_len = 0 THEN 0
            ELSE (IF inode # 0 /\ entry_name # <<DOT>> /\ entry_name # <<DOT, DOT>>
                  THEN 1 ELSE 0)
                 + CountOthers(buf, offset + rec_len, oob)

EmptyIn(d, oob) ==
    IF d.res = -1 THEN -1 ELSE IF CountOthers(d.buf, 0, oob) = 0 THEN 1 ELSE 0

ext2_is_dir_empty(s, dir_inode, oob) ==
    IF ~IsDirMode(dir_inode.i_mode) THEN -1 ELSE EmptyIn(ReadDir(s, dir_inode), oob)

IBlockAt(inode, b) == IF b < NIBLOCK THEN inode.i_block[b] ELSE 0

\* first record of the block, from offset on, whose rec_len exceeds what its
\* own name needs; -1 when the walk ends without one
RECURSIVE SlackScan(_, _, _)
SlackScan(block, offset, oob) ==
    IF offset >= block_size THEN -1
    ELSE LET rec_len == U16(block, offset + 4, oob)
             actual_len == 8 + Round4(Peek(block, offset + 6, oob))
         IN IF rec_len = 0 THEN -1
            ELSE IF rec_len > actual_len THEN offset
            ELSE SlackScan(block, offset + rec_len, oob)

\* the slack of directory block r as ext2_read_data_block returned it
BlockSlack(r, oob) == IF r.res # 0 THEN -1 ELSE SlackScan(r.buf, 0, oob)

\* the block with the record at offset cut to actual_len and the new record
\* placed right behind it
SplitEntry(block, offset, new_inode_num, name, type, oob) ==
    LET rec_len == U16(block, offset + 4, oob)
        actual_len == 8 + Round4(Peek(block, offset + 6, oob))
        new_rec_len == (rec_len - actual_len) % UINT16
        shortened == Poke(block, offset + 4, LE(actual_len, 2))
    IN Poke(shortened, offset + actual_len,
            DirEntryBytes(new_inode_num, new_rec_len, name, type))

AddWritten(w) == [found |-> TRUE, res |-> w.res, s |-> w.s]

\* block b of the directory, whose first slack is at offset (-1: none)
RECURSIVE AddLoop(_, _, _, _, _, _, _, _)
AddHere(s, dir_inode, b, block_count, offset, new_inode_num, name, type, oob) ==
    IF offset = -1
    THEN AddLoop(s, dir_inode, b + 1, block_count, new_inode_num, name, type, oob)
    ELSE AddWritten(ext2_write_blocks(s, IBlockAt(dir_inode, b),
                        SplitEntry(ext2_read_data_block(s, dir_inode, b).buf, offset,
                                   new_inode_num, name, type, oob)))

AddLoop(s, dir_inode, b, block_count, new_inode_num, name, type, oob) ==
    IF b >= block_count THEN [found |-> FALSE, res |-> -1, s |-> s]
    ELSE AddHere(s, dir_inode, b, block_count,
                 BlockSlack(ext2_read_data_block(s, dir_inode, b), oob),
                 new_inode_num, name, type, oob)

FreeSlots(inode) == {i \in 0..(NDIRECT - 1) : inode.i_block[i] = 0}
FirstFreeSlot(inode) == CHOOSE i \in FreeSlots(inode) : \A j \in FreeSlots(inode) : i <= j

\* the directory inode with new_block in its first free direct slot (none: block
\* left unmapped) and one more block of size
GrowDir(dir_inode, new_block) ==
    [(IF FreeSlots(dir_inode) = {} THEN dir_inode
      ELSE [dir_inode EXCEPT !.i_block[FirstFreeSlot(dir_inode)] = new_block])
     EXCEPT !.i_size = @ + block_size]

\* w: the write of the fresh block; the grown inode is written whatever w.res
AddGrown(w, dir_inode_num, grown) ==
    [res |-> w.res, s |-> ext2_write_inode(w.s, dir_inode_num, grown).s, dir_inode |-> grown]

\* a: what ext2_alloc_block returned for the fresh block
AddInNewBlock(a, s, dir_inode, dir_inode_num, new_inode_num, name, type) ==
    IF a.ret = 0 THEN [res |-> -1, s |-> s, dir_inode |-> dir_inode]
    ELSE AddGrown(ext2_write_blocks(a.s, a.ret,
                      Poke(ZeroBlock, 0, DirEntryBytes(new_inode_num, block_size, name, type))),
                  dir_inode_num, GrowDir(dir_inode, a.ret))

AddScanned(scan, s, dir_inode, dir_inode_num, new_inode_num, name, type) ==
    IF scan.found THEN [res |-> scan.res, s |-> scan.s, dir_inode |-> dir_inode]
    ELSE AddInNewBlock(ext2_alloc_block(s), s, dir_inode, dir_inode_num,
                       new_inode_num, name, type)

\* returns res, the device and the caller's in-memory copy of the directory inode
ext2_add_dir_entry(s, dir_inode, dir_inode_num, new_inode_num, name, type, oob) ==
    IF new_inode_num = 0 \/ Len(name) = 0 \/ Len(name) > MAX_NAME
    THEN [res |-> -1, s |-> s, dir_inode |-> dir_inode]
    ELSE AddScanned(AddLoop(s, dir_inode, 0, (dir_inode.i_size + block_size - 1) \div block_size,
                            new_inode_num, name, type, oob),
                    s, dir_inode, dir_inode_num, new_inode_num, name, type)

\* strcmp_local(entry->name, name) == 0 on the raw block: the record's bytes
\* must spell name and be followed by a NUL
RawNameMatches(block, offset, name, oob) ==
    CStr(NameBytes(block, offset, Len(name) + 1, oob)) = name

\* walk of one block: [hit, offset, prev] of the first matching live record
RECURSIVE RemoveScan(_, _, _, _, _)
RemoveScan(block, offset, prev, name, oob) ==
    IF offset >= block_size THEN [hit |-> FALSE, offset |-> 0, prev |-> -1]
    ELSE LET rec_len == U16(block, offset + 4, oob)
         IN IF rec_len = 0 THEN [hit |-> FALSE, offset |-> 0, prev |-> -1]
            ELSE IF U32(block, offset, oob) # 0
                    /\ Peek(block, offset + 6, oob) = Len(name)
                    /\ RawNameMatches(block, offset, name, oob)
                 THEN [hit |-> TRUE, offset |-> offset, prev |-> prev]
                 ELSE RemoveScan(block, offset + rec_len, offset, name, oob)

BlockMatch(r, name, oob) ==
    IF r.res # 0 THEN [hit |-> FALSE, offset |-> 0, prev |-> -1]
    ELSE RemoveScan(r.buf, 0, -1, name, oob)

\* the block with the record at m.offset merged into its predecessor, or, when
\* it is the first of the block, with its inode field zeroed
Unlinked(block, m, oob) ==
    IF m.prev # -1
    THEN Poke(block, m.prev + 4,
              LE((U16(block, m.prev + 4, oob) + U16(block, m.offset + 4, oob)) % UINT16, 2))
    ELSE Poke(block, m.offset, LE(0, 4))

RECURSIVE RemoveLoop(_, _, _, _, _, _)
RemoveHere(s, dir_inode, b, block_count, r, m, name, oob) ==
    IF ~m.hit THEN RemoveLoop(s, dir_inode, b + 1, block_count, name, oob)
    ELSE ext2_write_blocks(s, IBlockAt(dir_inode, b), Unlinked(r.buf, m, oob))

RemoveIn(s, dir_inode, b, block_count, r, name, oob) ==
    RemoveHere(s, dir_inode, b, block_count, r, BlockMatch(r, name, oob), name, oob)

RemoveLoop(s, dir_inode, b, block_count, name, oob) ==
    IF b >= block_count THEN [res |-> -1, s |-> s]
    ELSE RemoveIn(s, dir_inode, b, block_count,
                  ext2_read_data_block(s, dir_inode, b), name, oob)

ext2_remove_dir_entry(s, dir_inode, dir_inode_num, name, oob) ==
    IF Len(name) = 0 \/ Len(name) > MAX_NAME THEN [res |-> -1, s |-> s]
    ELSE RemoveLoop(s, dir_inode, 0,
                    (dir_inode.i_size + block_size - 1) \div block_size, name, oob)

(***************************************************************************)
(* Path resolution.  A path is its bytes, without the terminating NUL.     *)
(***************************************************************************)
\* one component looked up in the directory current_dir; 0 when it fails
StepFound(f) == IF f.res # 0 THEN 0 ELSE f.inode
StepIn(s, d, component, oob) ==
    IF d.res # 0 THEN 0 ELSE StepFound(ext2_find_dir_entry(s, d.inode, component, oob))
Step(s, current_dir, component, oob) ==
    StepIn(s, ext2_read_inode(s, current_dir), component, oob)

RECURSIVE WalkPath(_, _, _, _, _)
WalkFrom(s, path, next, oob) ==
    IF next = 0 THEN 0 ELSE WalkPath(s, path, <<>>, next, oob)

WalkPath(s, path, component, current_dir, oob) ==
    IF path = <<>>
    THEN IF Len(component) > 0 THEN Step(s, current_dir, component, oob) ELSE current_dir
    ELSE IF Head(path) = SLASH
         THEN IF Len(component) > 0
              THEN WalkFrom(s, Tail(path), Step(s, current_dir, component, oob), oob)
              ELSE WalkPath(s, Tail(path), <<>>, current_dir, oob)
         ELSE WalkPath(s, Tail(path),
                       IF Len(component) < 255 THEN Append(component, Head(path))
                       ELSE component,
                       current_dir, oob)

ext2_path_to_inode(s, path, oob) ==
    IF path = <<SLASH>> THEN EXT2_ROOT_INO
    ELSE WalkPath(s, IF path # <<>> /\ Head(path) = SLASH THEN Tail(path) ELSE path,
                  <<>>, EXT2_ROOT_INO, oob)

Resolved(n) == IF n = 0 THEN [res |-> -1, inode |-> 0] ELSE [res |-> 0, inode |-> n]
vfs_resolve_path(s, path, oob) ==
    Resolved(IF path = <<SLASH>> THEN EXT2_ROOT_INO
             ELSE WalkPath(s, IF path # <<>> /\ Head(path) = SLASH THEN Tail(path) ELSE path,
                           <<>>, EXT2_ROOT_INO, oob))

\* the split the mutating calls make: parent path and last component
Slashes(path) == {i \in 1..Len(path) : path[i] = SLASH}
LastSlash(path) == CHOOSE i \in Slashes(path) : \A j \in Slashes(path) : j <= i
SplitOk(path) ==
    /\ Len(path) > 0 /\ Len(path) <= 255
    /\ Slashes(path) # {}
    /\ LastSlash(path) < Len(path)
ParentPath(path) ==
    IF LastSlash(path) = 1 THEN <<SLASH>> ELSE SubSeq(path, 1, LastSlash(path) - 1)
LastName(path) == SubSeq(path, LastSlash(path) + 1, Len(path))


(***************************************************************************)
(* Symlinks.                                                               *)
(***************************************************************************)
\* the 60 bytes of the i_block area
RECURSIVE IBlockBytesFrom(_, _)
IBlockBytesFrom(inode, k) ==
    IF k >= NIBLOCK THEN <<>> ELSE LE(inode.i_block[k], 4) \o IBlockBytesFrom(inode, k + 1)
IBlockBytes(inode) == IBlockBytesFrom(inode, 0)
\* memcpy of a target into the zeroed i_block area
TargetWords(target) ==
    [k \in 0..(NIBLOCK - 1) |->
        U32([i \in 1..4 |-> IF 4 * k + i <= Len(target) THEN target[4 * k + i] ELSE 0], 0, 0)]

\* r: the target as ext2_read_file returned it from the data blocks
SlowTarget(r, link_len) ==
    IF r.res # link_len THEN [res |-> -1, buf |-> <<>>] ELSE [res |-> 0, buf |-> CStr(r.buf)]

\* buf is the NUL-terminated string left in the caller's buffer
ext2_read_symlink(s, inode, max_len) ==
    IF max_len = 0 \/ ~IsLnkMode(inode.i_mode) THEN [res |-> -1, buf |-> <<>>]
    ELSE LET link_len == IF inode.i_size >= max_len THEN max_len - 1 ELSE inode.i_size
         IN IF link_len <= FAST_SYMLINK_MAX
            THEN [res |-> 0, buf |-> CStr(SubSeq(IBlockBytes(inode), 1, link_len))]
            ELSE SlowTarget(ext2_read_file(s, inode, 0, link_len), link_len)

(***************************************************************************)
(* VFS calls, as functions of the filesystem s (and the handle) to the     *)
(* returned value and the filesystem (and handle) left behind.  A call is  *)
(* a chain of steps; each step takes what the step before it returned.     *)
(***************************************************************************)
NoFile == [inode |-> 0, size |-> 0, type |-> 0, position |-> 0, is_open |-> 0]
NotFollowed(depth) == [ok |-> FALSE, inode_num |-> 0, depth |-> depth]

\* the symlink-following loop of vfs_open, from inode_num at depth
RECURSIVE OpenFollow(_, _, _, _)
FollowTo(s, next, depth, oob) ==
    IF next = 0 THEN NotFollowed(depth) ELSE OpenFollow(s, next, depth + 1, oob)

TargetInode(s, t, oob) == IF t.res # 0 THEN 0 ELSE ext2_path_to_inode(s, t.buf, oob)

FollowInode(s, inode_num, r, depth, oob) ==
    IF r.res # 0 THEN NotFollowed(depth)
    ELSE IF IsLnkMode(r.inode.i_mode) /\ depth < MAX_SYMLINK_DEPTH
    THEN FollowTo(s, TargetInode(s, ext2_read_symlink(s, r.inode, 256), oob), depth, oob)
    ELSE [ok |-> TRUE, inode_num |-> inode_num, depth |-> depth]

OpenFollow(s, inode_num, depth, oob) ==
    FollowInode(s, inode_num, ext2_read_inode(s, inode_num), depth, oob)

OpenHandle(inode_num, inode) ==
    IF IsDirMode(inode.i_mode) THEN NoFile
    ELSE [inode |-> inode_num, size |-> inode.i_size,
          type |-> VFS_TYPE_FILE, position |-> 0, is_open |-> 1]

\* vfs_open without the depth test after its loop
OpenFollowedAnyDepth(s, f) ==
    IF ~f.ok THEN NoFile ELSE OpenHandle(f.inode_num, s.itab[f.inode_num])

OpenFollowed(s, f) ==
    IF ~f.ok \/ f.depth >= MAX_SYMLINK_DEPTH THEN NoFile
    ELSE OpenHandle(f.inode_num, s.itab[f.inode_num])

OpenInode(s, inode_num, oob) ==
    IF inode_num = 0 THEN NoFile ELSE OpenFollowed(s, OpenFollow(s, inode_num, 0, oob))

\* file is the fresh handle, NoFile when vfs_open returns NULL
vfs_open(s, path, oob) == OpenInode(s, ext2_path_to_inode(s, path, oob), oob)

ReadDone(file, d) ==
    [ret |-> d.res, buf |-> d.buf,
     file |-> IF d.res > 0 THEN [file EXCEPT !.position = @ + d.res] ELSE file]

vfs_read(s, file, size) ==
    IF ext2_read_inode(s, file.inode).res # 0 THEN [ret |-> -1, buf |-> <<>>, file |-> file]
    ELSE ReadDone(file, ext2_read_file(s, ext2_read_inode(s, file.inode).inode,
                                       file.position, size))

vfs_seek(file, offset) ==
    [file EXCEPT !.position = IF offset > file.size THEN file.size ELSE offset]

\* the name vfs_stat reports: what follows the last '/' that has a byte after it
NameStarts(path) == {i \in 1..(Len(path) - 1) : path[i] = SLASH}
StatName(path) ==
    IF NameStarts(path) = {} THEN path
    ELSE SubSeq(path, 1 + (CHOOSE i \in NameStarts(path) : \A j \in NameStarts(path) : j <= i),
                Len(path))

NoStat == [res |-> -1, inode |-> 0, name |-> <<>>, type |-> 0, size |-> 0]
StatInode(path, inode_num, r) ==
    IF r.res # 0 THEN NoStat
    ELSE [res |-> 0, inode |-> inode_num, name |-> StatName(path),
          type |-> vfs_get_type_from_mode(r.inode.i_mode), size |-> r.inode.i_size]
StatAt(s, path, inode_num) ==
    IF inode_num = 0 THEN NoStat ELSE StatInode(path, inode_num, ext2_read_inode(s, inode_num))

vfs_stat(s, path, oob) == StatAt(s, path, ext2_path_to_inode(s, path, oob))

vfs_exists(s, path, oob) == IF vfs_resolve_path(s, path, oob).res = 0 THEN 1 ELSE 0

(***************************************************************************)
(* vfs_create.                                                             *)
(***************************************************************************)
NewInode(type) ==
    IF type = VFS_TYPE_FILE
    THEN [ZeroInode EXCEPT !.i_mode = EXT2_S_IFREG + MODE_FILE, !.i_links_count = 1]
    ELSE [ZeroInode EXCEPT !.i_mode = EXT2_S_IFDIR + MODE_DIR, !.i_links_count = 2]
Ext2Type(type) == IF type = VFS_TYPE_FILE THEN EXT2_FT_REG_FILE ELSE EXT2_FT_DIR
Made(ret, s, ino) == [ret |-> ret, s |-> s, ino |-> ino]

\* d2: ".." added (or not); the directory inode is written back, return 0
CreateDone(d2, new_inode_num) ==
    Made(0, ext2_write_inode(d2.s, new_inode_num, d2.dir_inode).s, new_inode_num)

\* d1: "." added (or not); neither result is looked at
CreateDotDot(d1, new_inode_num, parent_inode_num, oob) ==
    CreateDone(ext2_add_dir_entry(d1.s, d1.dir_inode, new_inode_num, parent_inode_num,
                                  <<DOT, DOT>>, EXT2_FT_DIR, oob),
               new_inode_num)

\* di: the new directory's inode read back
CreateDots(s, di, new_inode_num, parent_inode_num, oob) ==
    IF di.res # 0 THEN Made(-1, s, new_inode_num)
    ELSE CreateDotDot(ext2_add_dir_entry(s, di.inode, new_inode_num, new_inode_num,
                                         <<DOT>>, EXT2_FT_DIR, oob),
                      new_inode_num, parent_inode_num, oob)

\* w2: the parent inode written back
CreateKind(w2, new_inode_num, parent_inode_num, type, oob) ==
    IF w2.res # 0 THEN Made(-1, w2.s, new_inode_num)
    ELSE IF type # VFS_TYPE_DIR THEN Made(0, w2.s, new_inode_num)
    ELSE CreateDots(w2.s, ext2_read_inode(w2.s, new_inode_num), new_inode_num,
                    parent_inode_num, oob)

\* vfs_create without the increment of the parent's link count
CreateLinkedKeepsCount(ad, new_inode_num, parent_inode_num, type, oob) ==
    IF ad.res # 0 THEN Made(-1, ad.s, new_inode_num)
    ELSE CreateKind(ext2_write_inode(ad.s, parent_inode_num, ad.dir_inode),
                    new_inode_num, parent_inode_num, type, oob)

\* ad: the entry added to the parent
CreateLinked(ad, new_inode_num, parent_inode_num, type, oob) ==
    IF ad.res # 0 THEN Made(-1, ad.s, new_inode_num)
    ELSE CreateKind(ext2_write_inode(ad.s, parent_inode_num,
                        IF type = VFS_TYPE_DIR
                        THEN [ad.dir_inode EXCEPT !.i_links_count = (@ + 1) % UINT16]
                        ELSE ad.dir_inode),
                    new_inode_num, parent_inode_num, type, oob)

\* w1: the new inode written
CreateEntry(w1, new_inode_num, parent_inode, parent_inode_num, name, type, oob) ==
    IF w1.res # 0 THEN Made(-1, w1.s, new_inode_num)
    ELSE CreateLinked(ext2_add_dir_entry(w1.s, parent_inode, parent_inode_num, new_inode_num,
                                         name, Ext2Type(type), oob),
                      new_inode_num, parent_inode_num, type, oob)

\* a: what ext2_alloc_inode returned
CreateInode(a, s, parent_inode, parent_inode_num, name, type, oob) ==
    IF a.ret = 0 THEN Made(-1, s, 0)
    ELSE IF type # VFS_TYPE_FILE /\ type # VFS_TYPE_DIR THEN Made(-1, a.s, a.ret)
    ELSE CreateEntry(ext2_write_inode(a.s, a.ret, NewInode(type)), a.ret,
                     parent_inode, parent_inode_num, name, type, oob)

\* pi: the parent inode read
CreateIn(s, pi, parent_inode_num, name, type, oob) ==
    IF pi.res # 0 THEN Made(-1, s, 0)
    ELSE CreateInode(ext2_alloc_inode(s), s, pi.inode, parent_inode_num, name, type, oob)

\* pr: the parent path resolved
CreateUnder(s, pr, name, type, oob) ==
    IF pr.res # 0 THEN Made(-1, s, 0)
    ELSE CreateIn(s, ext2_read_inode(s, pr.inode), pr.inode, name, type, oob)

vfs_create(s, path, type, oob) ==
    IF ~SplitOk(path) THEN Made(-1, s, 0)
    ELSE CreateUnder(s, vfs_resolve_path(s, ParentPath(path), oob), LastName(path), type, oob)

(***************************************************************************)
(* vfs_unlink.                                                             *)
(***************************************************************************)
\* ext2_free_block on i_block[i .. 11]; the first k block numbers that lie
\* outside every group are the stray frees that go through
RECURSIVE FreeDirect(_, _, _, _)
FreeDirect(s, inode, i, k) ==
    IF i >= NDIRECT THEN s
    ELSE IF inode.i_block[i] = 0 THEN FreeDirect(s, inode, i + 1, k)
    ELSE LET stray == (inode.i_block[i] - s_first_data_block) \div blocks_per_group \notin Groups
         IN FreeDirect(ext2_free_block(s, inode.i_block[i], stray /\ k > 0).s, inode, i + 1,
                       IF stray /\ k > 0 THEN k - 1 ELSE k)

StrayCount(inode, from, to) ==
    Cardinality({i \in from..(to - 1) :
        /\ inode.i_block[i] >= s_first_data_block
        /\ (inode.i_block[i] - s_first_data_block) \div blocks_per_group \notin Groups})

\* the block numbers vfs_unlink hands to ext2_free_block when the last link
\* of inode goes
FreedByUnlink(inode) ==
    {inode.i_block[i] : i \in {j \in 0..(NDIRECT - 1) : inode.i_block[j] # 0}}

Gone(ret, s) == [ret |-> ret, s |-> s]
Dec16(n) == (n + UINT16 - 1) % UINT16

\* w: the parent inode written back; inode: the victim, one link fewer
UnlinkDrop(w, inode, inode_num, k) ==
    IF w.res # 0 THEN Gone(-1, w.s)
    ELSE IF inode.i_links_count = 0
    THEN Gone(0, ext2_free_inode(FreeDirect(w.s, inode, 0, k), inode_num).s)
    ELSE Gone(0, ext2_write_inode(w.s, inode_num, inode).s)

\* rm: the entry removed from the parent
UnlinkRemoved(rm, parent_inode, parent_inode_num, inode, inode_num, k) ==
    IF rm.res # 0 THEN Gone(-1, rm.s)
    ELSE UnlinkDrop(ext2_write_inode(rm.s, parent_inode_num, parent_inode),
                    [inode EXCEPT !.i_links_count = Dec16(@)], inode_num, k)

UnlinkEntry(s, parent_inode, parent_inode_num, inode, inode_num, name, k, oob) ==
    UnlinkRemoved(ext2_remove_dir_entry(s, parent_inode, parent_inode_num, name, oob),
                  parent_inode, parent_inode_num, inode, inode_num, k)

\* ri: the victim's inode read
UnlinkInode(s, ri, inode_num, parent_inode, parent_inode_num, name, k, oob) ==
    IF ri.res # 0 THEN Gone(-1, s)
    ELSE IF IsDirMode(ri.inode.i_mode)
    THEN IF ext2_is_dir_empty(s, ri.inode, oob) <= 0 THEN Gone(-1, s)
         ELSE UnlinkEntry(s, [parent_inode EXCEPT !.i_links_count = Dec16(@)],
                          parent_inode_num, ri.inode, inode_num, name, k, oob)
    ELSE UnlinkEntry(s, parent_inode, parent_inode_num, ri.inode, inode_num, name, k, oob)

\* fd: the name looked up in the parent
UnlinkFound(s, fd, parent_inode, parent_inode_num, name, k, oob) ==
    IF fd.res # 0 THEN Gone(-1, s)
    ELSE UnlinkInode(s, ext2_read_inode(s, fd.inode), fd.inode,
                     parent_inode, parent_inode_num, name, k, oob)

UnlinkIn(s, pi, parent_inode_num, name, k, oob) ==
    IF pi.res # 0 THEN Gone(-1, s)
    ELSE UnlinkFound(s, ext2_find_dir_entry(s, pi.inode, name, oob),
                     pi.inode, parent_inode_num, name, k, oob)

UnlinkUnder(s, pr, name, k, oob) ==
    IF pr.res # 0 THEN Gone(-1, s)
    ELSE UnlinkIn(s, ext2_read_inode(s, pr.inode), pr.inode, name, k, oob)

vfs_unlink(s, path, k, oob) ==
    IF ~SplitOk(path) THEN Gone(-1, s)
    ELSE UnlinkUnder(s, vfs_resolve_path(s, ParentPath(path), oob), LastName(path), k, oob)

\* the stray frees vfs_unlink(path) would make: the victim's direct block
\* numbers that lie outside every group
StrayOf(ri) == IF ri.res # 0 THEN 0 ELSE StrayCount(ri.inode, 0, NDIRECT)
StrayFound(s, fd) == IF fd.res # 0 THEN 0 ELSE StrayOf(ext2_read_inode(s, fd.inode))
StrayIn(s, pi, name, oob) ==
    IF pi.res # 0 THEN 0 ELSE StrayFound(s, ext2_find_dir_entry(s, pi.inode, name, oob))
StrayUnder(s, pr, name, oob) ==
    IF pr.res # 0 THEN 0 ELSE StrayIn(s, ext2_read_inode(s, pr.inode), name, oob)
UnlinkStray(s, path, oob) ==
    IF ~SplitOk(path) THEN 0
    ELSE StrayUnder(s, vfs_resolve_path(s, ParentPath(path), oob), LastName(path), oob)

(***************************************************************************)
(* vfs_write and vfs_truncate.                                             *)
(***************************************************************************)
Wrote(s, inode, written) == [s |-> s, inode |-> inode, written |-> written]

RECURSIVE WriteLoop(_, _, _, _, _)
\* r: the block as read; when the read fails the write to the same block fails too
WritePatched(s, inode, position, buffer, written, r) ==
    LET block_index == (position + written) \div block_size
        block_offset == (position + written) % block_size
        to_write == Min(block_size - block_offset, Len(buffer) - written)
    IN WriteLoop(IF r.res # 0 THEN s
                 ELSE ext2_write_blocks(s, inode.i_block[block_index],
                          Poke(r.buf, block_offset,
                               SubSeq(buffer, written + 1, written + to_write))).s,
                 inode, position, buffer, written + to_write)

\* past "allocate block if needed"
WriteMapped(s, inode, position, buffer, written) ==
    LET block_index == (position + written) \div block_size
    IN IF block_index >= NDIRECT \/ inode.i_block[block_index] = 0
       THEN Wrote(s, inode, written)
       ELSE WritePatched(s, inode, position, buffer, written,
                         ext2_read_blocks(s, inode.i_block[block_index]))

\* a: what ext2_alloc_block returned for the unmapped block_index
WriteAlloc(a, s, inode, position, buffer, written) ==
    IF a.ret = 0 THEN Wrote(s, inode, written)
    ELSE WriteMapped(a.s,
                     [inode EXCEPT !.i_block[(position + written) \div block_size] = a.ret],
                     position, buffer, written)

\* the write loop without the limit of twelve on the index it allocates at
WriteLoopAnyIndex(s, inode, position, buffer, written) ==
    LET block_index == (position + written) \div block_size
    IN IF written >= Len(buffer) THEN Wrote(s, inode, written)
       ELSE IF block_index < NIBLOCK /\ inode.i_block[block_index] = 0
       THEN WriteAlloc(ext2_alloc_block(s), s, inode, position, buffer, written)
       ELSE WriteMapped(s, inode, position, buffer, written)

WriteLoop(s, inode, position, buffer, written) ==
    LET block_index == (position + written) \div block_size
    IN IF written >= Len(buffer) THEN Wrote(s, inode, written)
       ELSE IF block_index < NDIRECT /\ inode.i_block[block_index] = 0
       THEN WriteAlloc(ext2_alloc_block(s), s, inode, position, buffer, written)
       ELSE WriteMapped(s, inode, position, buffer, written)

\* the tail of vfs_write that leaves i_size as it was
WriteDoneKeepsSize(l, file) ==
    LET end == file.position + l.written
        inode == l.inode
    IN [ret |-> l.written,
        s |-> ext2_write_inode(l.s, file.inode, inode).s,
        file |-> [file EXCEPT !.position = end, !.size = inode.i_size]]

\* l: what the write loop left; size, position and inode are then updated
WriteDone(l, file) ==
    LET end == file.position + l.written
        inode == IF end > l.inode.i_size THEN [l.inode EXCEPT !.i_size = end] ELSE l.inode
    IN [ret |-> l.written,
        s |-> ext2_write_inode(l.s, file.inode, inode).s,
        file |-> [file EXCEPT !.position = end, !.size = inode.i_size]]

vfs_write(s, file, buffer) ==
    IF ext2_read_inode(s, file.inode).res # 0 THEN [ret |-> -1, s |-> s, file |-> file]
    ELSE WriteDone(WriteLoop(s, ext2_read_inode(s, file.inode).inode,
                             file.position, buffer, 0),
                   file)

RECURSIVE TruncLoop(_, _, _, _, _)
TruncLoop(s, inode, i, old_blocks, k) ==
    IF ~(i < old_blocks /\ i < NDIRECT) THEN [s |-> s, inode |-> inode]
    ELSE IF inode.i_block[i] = 0 THEN TruncLoop(s, inode, i + 1, old_blocks, k)
    ELSE LET stray == (inode.i_block[i] - s_first_data_block) \div blocks_per_group \notin Groups
         IN TruncLoop(ext2_free_block(s, inode.i_block[i], stray /\ k > 0).s,
                      [inode EXCEPT !.i_block[i] = 0], i + 1, old_blocks,
                      IF stray /\ k > 0 THEN k - 1 ELSE k)

\* l: what the freeing loop left
TruncDone(l, file, new_size) ==
    [ret |-> 0,
     s |-> ext2_write_inode(l.s, file.inode, [l.inode EXCEPT !.i_size = new_size]).s,
     file |-> [file EXCEPT !.size = new_size,
                           !.position = IF @ > new_size THEN new_size ELSE @]]

TruncInode(s, r, file, new_size, k) ==
    IF r.res # 0 THEN [ret |-> -1, s |-> s, file |-> file]
    ELSE IF new_size >= r.inode.i_size THEN [ret |-> 0, s |-> s, file |-> file]
    ELSE TruncDone(TruncLoop(s, r.inode, (new_size + block_size - 1) \div block_size,
                             (r.inode.i_size + block_size - 1) \div block_size, k),
                   file, new_size)

vfs_truncate(s, file, new_size, k) ==
    TruncInode(s, ext2_read_inode(s, file.inode), file, new_size, k)

\* the block numbers vfs_truncate(file, new_size) hands to ext2_free_block
FreedByTruncate(inode, new_size) ==
    IF new_size >= inode.i_size THEN {}
    ELSE {inode.i_block[i] :
            i \in {j \in 0..(NDIRECT - 1) :
                     /\ j >= (new_size + block_size - 1) \div block_size
                     /\ j < (inode.i_size + block_size - 1) \div block_size
                     /\ inode.i_block[j] # 0}}

TruncStray(s, file, new_size) ==
    LET inode == s.itab[file.inode]
        old_blocks == (inode.i_size + block_size - 1) \div block_size
        new_blocks == (new_size + block_size - 1) \div block_size
    IN IF new_size >= inode.i_size THEN 0
       ELSE StrayCount(inode, Min(new_blocks, NDIRECT), Min(old_blocks, NDIRECT))

(***************************************************************************)
(* vfs_create_symlink.                                                     *)
(***************************************************************************)
\* the link inode with its target always copied into the i_block area
LinkInodeInline(target, block) ==
    [i_mode |-> EXT2_S_IFLNK + MODE_LNK, i_uid |-> 0, i_gid |-> 0, i_links_count |-> 1,
     i_size |-> Len(target), i_block |-> TargetWords(target)]

\* block: the data block of a slow symlink
LinkInode(target, block) ==
    [i_mode |-> EXT2_S_IFLNK + MODE_LNK, i_uid |-> 0, i_gid |-> 0, i_links_count |-> 1,
     i_size |-> Len(target),
     i_block |-> IF Len(target) <= FAST_SYMLINK_MAX THEN TargetWords(target)
                 ELSE [ZeroInode.i_block EXCEPT ![0] = block]]

\* w2: the parent inode written back
LinkDone(w2, new_inode_num) ==
    IF w2.res # 0 THEN Made(-1, w2.s, new_inode_num) ELSE Made(0, w2.s, new_inode_num)

\* ad: the entry added to the parent
LinkLinked(ad, new_inode_num, parent_inode_num) ==
    IF ad.res # 0 THEN Made(-1, ext2_free_inode(ad.s, new_inode_num).s, new_inode_num)
    ELSE LinkDone(ext2_write_inode(ad.s, parent_inode_num, ad.dir_inode), new_inode_num)

\* w1: the symlink inode written
LinkEntry(w1, new_inode_num, parent_inode, parent_inode_num, name, oob) ==
    IF w1.res # 0 THEN Made(-1, ext2_free_inode(w1.s, new_inode_num).s, new_inode_num)
    ELSE LinkLinked(ext2_add_dir_entry(w1.s, parent_inode, parent_inode_num, new_inode_num,
                                       name, EXT2_FT_SYMLINK, oob),
                    new_inode_num, parent_inode_num)

\* s: the filesystem once the target is stored
LinkStored(s, new_inode_num, block, target, parent_inode, parent_inode_num, name, oob) ==
    LinkEntry(ext2_write_inode(s, new_inode_num, LinkInode(target, block)),
              new_inode_num, parent_inode, parent_inode_num, name, oob)

\* b: what ext2_alloc_block returned for the target's data block
LinkSlow(b, s, new_inode_num, target, parent_inode, parent_inode_num, name, oob) ==
    IF b.ret = 0 THEN Made(-1, ext2_free_inode(s, new_inode_num).s, new_inode_num)
    ELSE LinkStored(ext2_write_blocks(b.s, b.ret, Poke(ZeroBlock, 0, target)).s,
                    new_inode_num, b.ret, target, parent_inode, parent_inode_num, name, oob)

\* a: what ext2_alloc_inode returned
LinkInodeAt(a, s, target, parent_inode, parent_inode_num, name, oob) ==
    IF a.ret = 0 THEN Made(-1, s, 0)
    ELSE IF Len(target) <= FAST_SYMLINK_MAX
    THEN LinkStored(a.s, a.ret, 0, target, parent_inode, parent_inode_num, name, oob)
    ELSE LinkSlow(ext2_alloc_block(a.s), a.s, a.ret, target,
                  parent_inode, parent_inode_num, name, oob)

LinkIn(s, pi, parent_inode_num, name, target, oob) ==
    IF pi.res # 0 THEN Made(-1, s, 0)
    ELSE LinkInodeAt(ext2_alloc_inode(s), s, target, pi.inode, parent_inode_num, name, oob)

LinkUnder(s, pr, name, target, oob) ==
    IF pr.res # 0 THEN Made(-1, s, 0)
    ELSE LinkIn(s, ext2_read_inode(s, pr.inode), pr.inode, name, target, oob)

vfs_create_symlink(s, path, target, oob) ==
    IF ~SplitOk(path) THEN Made(-1, s, 0)
    ELSE LinkUnder(s, vfs_resolve_path(s, ParentPath(path), oob), LastName(path), target, oob)

(***************************************************************************)
(* State.                                                                  *)
(***************************************************************************)
(***************************************************************************)
(* vfs_chmod and vfs_chown.  mode, uid and gid are uint16_t.               *)
(***************************************************************************)
FileTypeBits(i_mode) == (i_mode \div 4096) * 4096       \* i_mode & 0xF000
PermBits(mode) == mode % 512                            \* mode & 0777

\* the tail shared by both calls: the inode is written back
AttrWritten(w) == IF w.res # 0 THEN [ret |-> -1, s |-> w.s] ELSE [ret |-> 0, s |-> w.s]

\* vfs_chmod's update leaving the file-type bits out
ChmodInodeDropsType(s, inode_num, r, mode) ==
    IF r.res # 0 THEN [ret |-> -1, s |-> s]
    ELSE AttrWritten(ext2_write_inode(s, inode_num,
             [r.inode EXCEPT !.i_mode = PermBits(mode)]))

ChmodInode(s, inode_num, r, mode) ==
    IF r.res # 0 THEN [ret |-> -1, s |-> s]
    ELSE AttrWritten(ext2_write_inode(s, inode_num,
             [r.inode EXCEPT !.i_mode = FileTypeBits(@) + PermBits(mode)]))
ChmodAt(s, inode_num, mode) ==
    IF inode_num = 0 THEN [ret |-> -1, s |-> s]
    ELSE ChmodInode(s, inode_num, ext2_read_inode(s, inode_num), mode)
vfs_chmod(s, path, mode, oob) == ChmodAt(s, ext2_path_to_inode(s, path, oob), mode)

ChownInode(s, inode_num, r, uid, gid) ==
    IF r.res # 0 THEN [ret |-> -1, s |-> s]
    ELSE AttrWritten(ext2_write_inode(s, inode_num,
             [r.inode EXCEPT !.i_uid = uid, !.i_gid = gid]))
ChownAt(s, inode_num, uid, gid) ==
    IF inode_num = 0 THEN [ret |-> -1, s |-> s]
    ELSE ChownInode(s, inode_num, ext2_read_inode(s, inode_num), uid, gid)
vfs_chown(s, path, uid, gid, oob) == ChownAt(s, ext2_path_to_inode(s, path, oob), uid, gid)

Cur == [sb |-> superblock, bg |-> block_groups, bbm |-> block_bitmap,
        ibm |-> inode_bitmap, itab |-> inode_table, blk |-> blocks, writes |-> <<>>,
        disk |-> on_disk]
Post == [sb |-> superblock', bg |-> block_groups', bbm |-> block_bitmap',
         ibm |-> inode_bitmap', itab |-> inode_table', blk |-> blocks', writes |-> <<>>,
         disk |-> on_disk']
Commit(s) ==
    /\ superblock' = s.sb
    /\ block_groups' = s.bg
    /\ block_bitmap' = s.bbm
    /\ inode_bitmap' = s.ibm
    /\ inode_table' = s.itab
    /\ blocks' = s.blk
    /\ on_disk' = s.disk
    /\ UNCHANGED global_fs
fsvars == <<global_fs, superblock, on_disk, block_groups, block_bitmap, inode_bitmap, inode_table,
           blocks>>

(***************************************************************************)
(* Inputs the callers draw from.                                           *)
(***************************************************************************)
NameA == <<97>>
NameAB == <<97, 98>>
NameLong == <<97, 98, 99, 100, 101>>
PathA == <<SLASH>> \o NameA
PathAB == <<SLASH>> \o NameAB
PathLong == <<SLASH>> \o NameLong
PathAA == PathA \o <<SLASH>> \o NameA
Paths == {PathA, PathAB, PathLong, PathAA}
Targets == {PathA, PathAB}
Types == {VFS_TYPE_FILE, VFS_TYPE_DIR}
Buffers == {<<120>>, <<121, 122, 123>>}
Offsets == {0, 1}
OobBytes == {0, 255}
Handles == 1..MaxHandles

(***************************************************************************)
(* The freshly formatted, mounted image: the root directory alone.         *)
(***************************************************************************)
\* the device the image was mounted from: every VFS call finds ext2_get_fs() set
ImageDevice == 1
RootInode ==
    [ZeroInode EXCEPT !.i_mode = EXT2_S_IFDIR + MODE_DIR, !.i_links_count = 2,
                      !.i_size = block_size, !.i_block[0] = ROOT_BLOCK]
RootBlock ==
    Poke(Poke(ZeroBlock, 0, DirEntryBytes(EXT2_ROOT_INO, 12, <<DOT>>, EXT2_FT_DIR)),
         12, DirEntryBytes(EXT2_ROOT_INO, block_size - 12, <<DOT, DOT>>, EXT2_FT_DIR))
NoCall ==
    [op |-> "mount", path |-> <<>>, h |-> 0, arg |-> 0, ret |-> 0, ino |-> 0, buf |-> <<>>]

Init ==
    /\ superblock = [s_free_blocks_count |-> NumFreeBlocks,
                     s_free_inodes_count |-> NumFreeInodes,
                     s_inodes_per_group |-> inodes_per_group,
                     s_blocks_per_group |-> ROOT_BLOCK + 1 + NumFreeBlocks,
                     s_blocks_count |-> ROOT_BLOCK + 1 + NumFreeBlocks,
                     s_log_block_size |-> 0]
    /\ block_groups = [g \in Groups |-> [bg_free_blocks_count |-> NumFreeBlocks,
                                         bg_free_inodes_count |-> NumFreeInodes]]
    /\ on_disk = [sb |-> [s_free_blocks_count |-> superblock.s_free_blocks_count,
                          s_free_inodes_count |-> superblock.s_free_inodes_count],
                  bg |-> block_groups]
    /\ block_bitmap = [g \in Groups |->
          [i \in 0..(blocks_per_group - 1) |->
              IF i + s_first_data_block <= ROOT_BLOCK
                 \/ i + s_first_data_block >= s_blocks_count THEN 1 ELSE 0]]
    /\ inode_bitmap = [g \in Groups |->
          [i \in 0..(inodes_per_group - 1) |-> IF i + 1 < EXT2_FIRST_INO THEN 1 ELSE 0]]
    /\ inode_table = [n \in 1..s_inodes_count |->
          IF n = EXT2_ROOT_INO THEN RootInode ELSE ZeroInode]
    /\ blocks = [b \in DataBlocks |-> IF b = ROOT_BLOCK THEN RootBlock ELSE ZeroBlock]
    /\ files = [h \in Handles |-> NoFile]
    /\ global_fs = ImageDevice
    /\ last = NoCall
    /\ created = [p \in Paths |-> 0]
    /\ nops = 0
    /\ scheduler_init

(***************************************************************************)
(* One action per VFS call.                                                *)
(***************************************************************************)
Create(p, type) ==
    /\ \E oob \in OobBytes :
         LET r == vfs_create(Cur, p, type, oob)
         IN /\ Commit(r.s)
            /\ last' = [NoCall EXCEPT !.op = "create", !.path = p, !.arg = type,
                                      !.ret = r.ret, !.ino = r.ino]
            /\ created' = IF r.ret = 0 THEN [created EXCEPT ![p] = r.ino] ELSE created
    /\ nops' = nops + 1
    /\ UNCHANGED schedvars
    /\ UNCHANGED files

CreateSymlink(p, target) ==
    /\ \E oob \in OobBytes :
         LET r == vfs_create_symlink(Cur, p, target, oob)
         IN /\ Commit(r.s)
            /\ last' = [NoCall EXCEPT !.op = "symlink", !.path = p, !.buf = target,
                                      !.ret = r.ret, !.ino = r.ino]
    /\ nops' = nops + 1
    /\ UNCHANGED schedvars
    /\ UNCHANGED <<files, created>>

Unlink(p) ==
    /\ \E oob \in OobBytes :
         \E k \in 0..UnlinkStray(Cur, p, oob) :
            LET r == vfs_unlink(Cur, p, k, oob)
            IN /\ Commit(r.s)
               /\ last' = [NoCall EXCEPT !.op = "unlink", !.path = p, !.ret = r.ret]
    /\ created' = [created EXCEPT ![p] = 0]
    /\ nops' = nops + 1
    /\ UNCHANGED schedvars
    /\ UNCHANGED files

FreeHandles == {h \in Handles : files[h].is_open = 0}
OpenHandles == {h \in Handles : files[h].is_open = 1}

Open(p) ==
    /\ FreeHandles # {}
    /\ \E oob \in OobBytes :
         LET f == vfs_open(Cur, p, oob)
             h == CHOOSE x \in FreeHandles : \A y \in FreeHandles : x <= y
         IN IF f = NoFile
            THEN /\ files' = files
                 /\ last' = [NoCall EXCEPT !.op = "open", !.path = p]
            ELSE /\ files' = [files EXCEPT ![h] = f]
                 /\ last' = [NoCall EXCEPT !.op = "open", !.path = p, !.h = h,
                                           !.ino = f.inode]
    /\ nops' = nops + 1
    /\ UNCHANGED schedvars
    /\ UNCHANGED <<fsvars, created>>

Close(h) ==
    /\ h \in OpenHandles
    /\ files' = [files EXCEPT ![h] = NoFile]
    /\ last' = [NoCall EXCEPT !.op = "close", !.h = h]
    /\ nops' = nops + 1
    /\ UNCHANGED schedvars
    /\ UNCHANGED <<fsvars, created>>

Write(h, buffer) ==
    /\ h \in OpenHandles
    /\ LET r == vfs_write(Cur, files[h], buffer)
       IN /\ Commit(r.s)
          /\ files' = [files EXCEPT ![h] = r.file]
          /\ last' = [NoCall EXCEPT !.op = "write", !.h = h, !.arg = files[h].position,
                                    !.buf = buffer, !.ret = r.ret, !.ino = files[h].inode]
    /\ nops' = nops + 1
    /\ UNCHANGED schedvars
    /\ UNCHANGED created

Read(h, size) ==
    /\ h \in OpenHandles
    /\ LET r == vfs_read(Cur, files[h], size)
       IN /\ files' = [files EXCEPT ![h] = r.file]
          /\ last' = [NoCall EXCEPT !.op = "read", !.h = h, !.arg = size,
                                    !.buf = r.buf, !.ret = r.ret, !.ino = files[h].inode]
    /\ nops' = nops + 1
    /\ UNCHANGED schedvars
    /\ UNCHANGED <<fsvars, created>>

Seek(h, offset) ==
    /\ h \in OpenHandles
    /\ files' = [files EXCEPT ![h] = vfs_seek(files[h], offset)]
    /\ last' = [NoCall EXCEPT !.op = "seek", !.h = h, !.arg = offset]
    /\ nops' = nops + 1
    /\ UNCHANGED schedvars
    /\ UNCHANGED <<fsvars, created>>

Truncate(h, new_size) ==
    /\ h \in OpenHandles
    /\ \E k \in 0..TruncStray(Cur, files[h], new_size) :
         LET r == vfs_truncate(Cur, files[h], new_size, k)
         IN /\ Commit(r.s)
            /\ files' = [files EXCEPT ![h] = r.file]
            /\ last' = [NoCall EXCEPT !.op = "truncate", !.h = h, !.arg = new_size,
                                      !.ret = r.ret, !.ino = files[h].inode]
    /\ nops' = nops + 1
    /\ UNCHANGED schedvars
    /\ UNCHANGED created

Chmod(p, mode) ==
    /\ \E oob \in OobBytes :
         LET r == vfs_chmod(Cur, p, mode, oob)
         IN /\ Commit(r.s)
            /\ last' = [NoCall EXCEPT !.op = "chmod", !.path = p, !.arg = mode,
                                      !.ret = r.ret,
                                      !.ino = ext2_path_to_inode(Cur, p, oob)]
    /\ nops' = nops + 1
    /\ UNCHANGED schedvars
    /\ UNCHANGED <<files, created>>

Chown(p, uid, gid) ==
    /\ \E oob \in OobBytes :
         LET r == vfs_chown(Cur, p, uid, gid, oob)
         IN /\ Commit(r.s)
            /\ last' = [NoCall EXCEPT !.op = "chown", !.path = p, !.buf = <<uid, gid>>,
                                      !.ret = r.ret,
                                      !.ino = ext2_path_to_inode(Cur, p, oob)]
    /\ nops' = nops + 1
    /\ UNCHANGED schedvars
    /\ UNCHANGED <<files, created>>

Next ==
    \/ \E p \in Paths, type \in Types : nops < MaxOps /\ Create(p, type)
    \/ \E p \in Paths, target \in Targets : nops < MaxOps /\ CreateSymlink(p, target)
    \/ \E p \in Paths : nops < MaxOps /\ Unlink(p)
    \/ \E p \in Paths : nops < MaxOps /\ Open(p)
    \/ \E h \in Handles : nops < MaxOps /\ Close(h)
    \/ \E h \in Handles, buffer \in Buffers : nops < MaxOps /\ Write(h, buffer)
    \/ \E h \in Handles, size \in Offsets : nops < MaxOps /\ Read(h, size)
    \/ \E h \in Handles, offset \in Offsets : nops < MaxOps /\ Seek(h, offset)
    \/ \E h \in Handles, new_size \in Offsets : nops < MaxOps /\ Truncate(h, new_size)

Spec == Init /\ [][Next]_vars

(***************************************************************************)
(* The namespace calls alone: a caller that creates, links and removes     *)
(* but holds no handle.                                                    *)
(***************************************************************************)
NextNS ==
    \/ \E p \in Paths, type \in Types : nops < MaxOps /\ Create(p, type)
    \/ \E p \in Paths, target \in Targets : nops < MaxOps /\ CreateSymlink(p, target)
    \/ \E p \in Paths : nops < MaxOps /\ Unlink(p)

SpecNS == Init /\ [][NextNS]_vars

(***************************************************************************)
(* File I/O: a caller that creates and removes files, directories and      *)
(* links and reads, writes, seeks and truncates through handles.           *)
(***************************************************************************)
IOPaths == {PathA, PathAB}

NextIO ==
    \/ \E p \in IOPaths, type \in Types : nops < MaxOpsIO /\ Create(p, type)
    \/ \E p \in IOPaths : nops < MaxOpsIO /\ CreateSymlink(p, PathA)
    \/ \E p \in IOPaths : nops < MaxOpsIO /\ Unlink(p)
    \/ \E p \in IOPaths : nops < MaxOpsIO /\ Open(p)
    \/ \E h \in Handles : nops < MaxOpsIO /\ Close(h)
    \/ \E h \in Handles, buffer \in Buffers : nops < MaxOpsIO /\ Write(h, buffer)
    \/ \E h \in Handles, size \in Offsets : nops < MaxOpsIO /\ Read(h, size)
    \/ \E h \in Handles, offset \in Offsets : nops < MaxOpsIO /\ Seek(h, offset)
    \/ \E h \in Handles, new_size \in Offsets : nops < MaxOpsIO /\ Truncate(h, new_size)

SpecIO == Init /\ [][NextIO]_vars

(***************************************************************************)
(* The same caller when every name is a regular file.                      *)
(***************************************************************************)
NextReg ==
    \/ \E p \in IOPaths : nops < MaxOpsIO /\ Create(p, VFS_TYPE_FILE)
    \/ \E p \in IOPaths : nops < MaxOpsIO /\ Unlink(p)
    \/ \E p \in IOPaths : nops < MaxOpsIO /\ Open(p)
    \/ \E h \in Handles : nops < MaxOpsIO /\ Close(h)
    \/ \E h \in Handles, buffer \in Buffers : nops < MaxOpsIO /\ Write(h, buffer)
    \/ \E h \in Handles, size \in Offsets : nops < MaxOpsIO /\ Read(h, size)
    \/ \E h \in Handles, offset \in Offsets : nops < MaxOpsIO /\ Seek(h, offset)
    \/ \E h \in Handles, new_size \in Offsets : nops < MaxOpsIO /\ Truncate(h, new_size)

SpecReg == Init /\ [][NextReg]_vars

(***************************************************************************)
(* A caller that builds a chain of symlinks in the root of a fresh image   *)
(* with MaxChain free inodes: the first name is a regular file or a        *)
(* symlink to itself, every later name is a symlink to the name before     *)
(* it.  It opens and closes the names at any time.                         *)
(***************************************************************************)
ChainPath(i) == <<SLASH, 96 + i>>
ChainPaths == {ChainPath(i) : i \in 1..MaxChain}
ChainMade == MaxChain - superblock.s_free_inodes_count

InitChain ==
    /\ superblock = [s_free_blocks_count |-> NumFreeBlocks,
                     s_free_inodes_count |-> MaxChain,
                     s_inodes_per_group |-> EXT2_FIRST_INO - 1 + MaxChain,
                     s_blocks_per_group |-> ROOT_BLOCK + 1 + NumFreeBlocks,
                     s_blocks_count |-> ROOT_BLOCK + 1 + NumFreeBlocks,
                     s_log_block_size |-> 0]
    /\ block_groups = [g \in Groups |-> [bg_free_blocks_count |-> NumFreeBlocks,
                                         bg_free_inodes_count |-> MaxChain]]
    /\ on_disk = [sb |-> [s_free_blocks_count |-> superblock.s_free_blocks_count,
                          s_free_inodes_count |-> superblock.s_free_inodes_count],
                  bg |-> block_groups]
    /\ block_bitmap = [g \in Groups |->
          [i \in 0..(blocks_per_group - 1) |->
              IF i + s_first_data_block <= ROOT_BLOCK
                 \/ i + s_first_data_block >= s_blocks_count THEN 1 ELSE 0]]
    /\ inode_bitmap = [g \in Groups |->
          [i \in 0..(EXT2_FIRST_INO - 2 + MaxChain) |->
              IF i + 1 < EXT2_FIRST_INO THEN 1 ELSE 0]]
    /\ inode_table = [n \in 1..(EXT2_FIRST_INO - 1 + MaxChain) |->
          IF n = EXT2_ROOT_INO THEN RootInode ELSE ZeroInode]
    /\ blocks = [b \in DataBlocks |-> IF b = ROOT_BLOCK THEN RootBlock ELSE ZeroBlock]
    /\ files = [h \in Handles |-> NoFile]
    /\ global_fs = ImageDevice
    /\ last = NoCall
    /\ created = [p \in Paths |-> 0]
    /\ nops = 0
    /\ scheduler_init

NextChain ==
    \/ nops < MaxOpsChain /\ ChainMade = 0 /\ Create(ChainPath(1), VFS_TYPE_FILE)
    \/ nops < MaxOpsChain /\ ChainMade = 0 /\ CreateSymlink(ChainPath(1), ChainPath(1))
    \/ \E i \in 2..MaxChain :
          nops < MaxOpsChain /\ ChainMade = i - 1
          /\ CreateSymlink(ChainPath(i), ChainPath(i - 1))
    \/ \E p \in ChainPaths : nops < MaxOpsChain /\ Open(p)
    \/ \E h \in Handles : nops < MaxOpsChain /\ Close(h)

SpecChain == InitChain /\ [][NextChain]_vars

(***************************************************************************)
(* A caller that reads one regular file with any requested length, the     *)
(* lengths near 2^32 included.                                             *)
(***************************************************************************)
\* 2^32 - k as a uint32_t
Wide(k) == 0 - k
ReadSizes == {0, 1, 3, Wide(1), Wide(2)}

NextWide ==
    \/ nops < MaxOpsIO /\ Create(PathA, VFS_TYPE_FILE)
    \/ nops < MaxOpsIO /\ Open(PathA)
    \/ \E h \in Handles, buffer \in Buffers : nops < MaxOpsIO /\ Write(h, buffer)
    \/ \E h \in Handles, offset \in Offsets : nops < MaxOpsIO /\ Seek(h, offset)
    \/ \E h \in Handles, size \in ReadSizes : nops < MaxOpsIO /\ Read(h, size)

SpecWide == Init /\ [][NextWide]_vars

(***************************************************************************)
(* A caller that fills regular files up to and past the twelve direct      *)
(* blocks, on a fresh image with BigFree free data blocks: two files, so   *)
(* that the image can run out of blocks before a file reaches the limit.   *)
(***************************************************************************)
DirectLimit == NDIRECT * block_size
BigBuffer(n) == [i \in 1..n |-> 97 + (i % 5)]
BigBuffers == {BigBuffer(n) : n \in {1, block_size, DirectLimit - 1, DirectLimit + 1}}
BigOffsets == {0, 1, block_size, DirectLimit - 1, DirectLimit}

InitBig ==
    /\ superblock = [s_free_blocks_count |-> BigFree,
                     s_free_inodes_count |-> NumFreeInodes,
                     s_inodes_per_group |-> inodes_per_group,
                     s_blocks_per_group |-> ROOT_BLOCK + 1 + BigFree,
                     s_blocks_count |-> ROOT_BLOCK + 1 + BigFree,
                     s_log_block_size |-> 0]
    /\ block_groups = [g \in Groups |-> [bg_free_blocks_count |-> BigFree,
                                         bg_free_inodes_count |-> NumFreeInodes]]
    /\ on_disk = [sb |-> [s_free_blocks_count |-> superblock.s_free_blocks_count,
                          s_free_inodes_count |-> superblock.s_free_inodes_count],
                  bg |-> block_groups]
    /\ block_bitmap = [g \in Groups |->
          [i \in 0..(blocks_per_group - 1) |->
              IF i + s_first_data_block <= ROOT_BLOCK
                 \/ i + s_first_data_block >= s_blocks_count THEN 1 ELSE 0]]
    /\ inode_bitmap = [g \in Groups |->
          [i \in 0..(inodes_per_group - 1) |-> IF i + 1 < EXT2_FIRST_INO THEN 1 ELSE 0]]
    /\ inode_table = [n \in 1..s_inodes_count |->
          IF n = EXT2_ROOT_INO THEN RootInode ELSE ZeroInode]
    /\ blocks = [b \in DataBlocks |-> IF b = ROOT_BLOCK THEN RootBlock ELSE ZeroBlock]
    /\ files = [h \in Handles |-> NoFile]
    /\ global_fs = ImageDevice
    /\ last = NoCall
    /\ created = [p \in Paths |-> 0]
    /\ nops = 0
    /\ scheduler_init

NextBig ==
    \/ \E p \in {PathA, PathAB} : nops < MaxOpsBig /\ Create(p, VFS_TYPE_FILE)
    \/ \E p \in {PathA, PathAB} : nops < MaxOpsBig /\ Open(p)
    \/ \E h \in Handles, buffer \in BigBuffers : nops < MaxOpsBig /\ Write(h, buffer)
    \/ \E h \in Handles, offset \in BigOffsets : nops < MaxOpsBig /\ Seek(h, offset)

SpecBig == InitBig /\ [][NextBig]_vars

(***************************************************************************)
(* A caller that creates files, directories and symlinks and changes their *)
(* permissions and owners.                                                 *)
(***************************************************************************)
RootPath == <<SLASH>>
AttrPaths == {RootPath, PathA, PathAB, PathAA}
Modes == {0, 2541, 65535}      \* 0, 04755, 0xFFFF
Owners == {0, 1000}

NextAttr ==
    \/ \E p \in {PathA, PathAA}, type \in Types : nops < MaxOps /\ Create(p, type)
    \/ nops < MaxOps /\ CreateSymlink(PathAB, PathA)
    \/ \E p \in AttrPaths, mode \in Modes : nops < MaxOps /\ Chmod(p, mode)
    \/ \E p \in AttrPaths, uid \in Owners, gid \in Owners : nops < MaxOps /\ Chown(p, uid, gid)

SpecAttr == Init /\ [][NextAttr]_vars

(***************************************************************************)
(* The RAM-backed block device on its own (src/src/ramdisk.c behind        *)
(* src/src/blockdev.c): dev is the array ramdisk->data, block by block.    *)
(* block and count are uint32_t, held as ULess and Add32 hold them.        *)
(***************************************************************************)
\* the two range tests of ramdisk_read and ramdisk_write
RangeRejected(block, count) ==
    \/ ~ULess(block, DiskBlocks)
    \/ ULess(DiskBlocks, Add32(block, count))

RECURSIVE Sectors(_, _, _)
Sectors(dev, block, count) ==
    IF count = 0 THEN <<>> ELSE dev[block] \o Sectors(dev, block + 1, count - 1)

\* When both tests pass with a count of 2^31 or more, block + count has
\* wrapped and count * RAMDISK_BLOCK_SIZE is within a device size of 2^32:
\* memcpy_local runs over the rest of the device and on past the end of the
\* allocation.  What it reads there is any byte (oob); the copy itself may
\* also fault, in which case the call does not return.
ramdisk_read(dev, block, count, oob) ==
    IF RangeRejected(block, count) THEN [res |-> -1, buf |-> <<>>]
    ELSE IF count >= 0 THEN [res |-> 0, buf |-> Sectors(dev, block, count)]
    ELSE [res |-> 0, buf |-> Sectors(dev, block, DiskBlocks - block) \o <<oob>>]

\* buffer holds the bytes the caller passes
ramdisk_write(dev, block, count, buffer, oob) ==
    IF RangeRejected(block, count) THEN [res |-> -1, dev |-> dev]
    ELSE IF count >= 0
    THEN [res |-> 0,
          dev |-> [b \in DOMAIN dev |->
                      IF b >= block /\ b < block + count
                      THEN SubSeq(buffer, (b - block) * SectorBytes + 1,
                                  (b - block + 1) * SectorBytes)
                      ELSE dev[b]]]
    ELSE [res |-> 0,
          dev |-> [b \in DOMAIN dev |->
                      IF b < block THEN dev[b]
                      ELSE [i \in 1..SectorBytes |->
                              IF (b - block) * SectorBytes + i <= Len(buffer)
                              THEN buffer[(b - block) * SectorBytes + i] ELSE oob]]]

blockdev_read(dev, block, count, oob) == ramdisk_read(dev, block, count, oob)
blockdev_write(dev, block, count, buffer, oob) == ramdisk_write(dev, block, count, buffer, oob)

\* ramdisk_create: the device zeroed; the filesystem variables are not used
InitDisk ==
    /\ blocks = [b \in 0..(DiskBlocks - 1) |-> [i \in 1..SectorBytes |-> 0]]
    /\ last = [op |-> "ramdisk_create", block |-> 0, count |-> 0, ret |-> 0, buf |-> <<>>]
    /\ nops = 0
    /\ scheduler_init
    /\ superblock = [s_free_blocks_count |-> 0, s_free_inodes_count |-> 0,
                     s_inodes_per_group |-> 0, s_blocks_per_group |-> DiskBlocks,
                     s_blocks_count |-> DiskBlocks,
                     s_log_block_size |-> 0]
    /\ on_disk = [sb |-> [s_free_blocks_count |-> 0, s_free_inodes_count |-> 0],
                  bg |-> <<>>]
    /\ block_groups = <<>>
    /\ block_bitmap = <<>>
    /\ inode_bitmap = <<>>
    /\ inode_table = <<>>
    /\ files = [h \in Handles |-> NoFile]
    /\ global_fs = ImageDevice
    /\ created = [p \in Paths |-> 0]

DiskBlockNumbers == {0, 1, DiskBlocks - 1, DiskBlocks, Wide(1)}
DiskCounts == {0, 1, 2, DiskBlocks, Wide(1), Wide(2)}
DiskBytes == {1, 2}
\* the caller's buffer for count blocks: at most the device's size
DiskBuffer(count, v) ==
    [i \in 1..(SectorBytes * (IF count < 0 \/ count > DiskBlocks THEN 1 ELSE count)) |-> v]

DiskRead(block, count) ==
    /\ \E oob \in OobBytes :
         LET r == blockdev_read(blocks, block, count, oob)
         IN last' = [op |-> "blockdev_read", block |-> block, count |-> count,
                     ret |-> r.res, buf |-> r.buf]
    /\ nops' = nops + 1
    /\ UNCHANGED schedvars
    /\ UNCHANGED <<fsvars, files, created>>

DiskWrite(block, count, v) ==
    /\ \E oob \in OobBytes :
         LET r == blockdev_write(blocks, block, count, DiskBuffer(count, v), oob)
         IN /\ blocks' = r.dev
            /\ last' = [op |-> "blockdev_write", block |-> block, count |-> count,
                        ret |-> r.res, buf |-> DiskBuffer(count, v)]
    /\ nops' = nops + 1
    /\ UNCHANGED schedvars
    /\ UNCHANGED <<global_fs, superblock, on_disk, block_groups, block_bitmap, inode_bitmap,
                   inode_table, files, created>>

NextDisk ==
    \/ \E block \in DiskBlockNumbers, count \in DiskCounts :
          nops < MaxOpsDisk /\ DiskRead(block, count)
    \/ \E block \in DiskBlockNumbers, count \in DiskCounts, v \in DiskBytes :
          nops < MaxOpsDisk /\ DiskWrite(block, count, v)

SpecDisk == InitDisk /\ [][NextDisk]_vars

(***************************************************************************)
(* A caller that fills the root directory: vfs_create("/fN", FILE) with    *)
(* distinct, increasing N, on a fresh image.                               *)
(***************************************************************************)
\* the filesystem variables of a fresh image with the given free counts
MountedImage(free_blocks, free_inodes, log_block_size) ==
    /\ global_fs = ImageDevice
    /\ superblock = [s_free_blocks_count |-> free_blocks,
                     s_free_inodes_count |-> free_inodes,
                     s_inodes_per_group |-> EXT2_FIRST_INO - 1 + free_inodes,
                     s_blocks_per_group |-> ROOT_BLOCK + 1 + free_blocks,
                     s_blocks_count |-> ROOT_BLOCK + 1 + free_blocks,
                     s_log_block_size |-> log_block_size]
    /\ block_groups = [g \in Groups |-> [bg_free_blocks_count |-> free_blocks,
                                         bg_free_inodes_count |-> free_inodes]]
    /\ on_disk = [sb |-> [s_free_blocks_count |-> superblock.s_free_blocks_count,
                          s_free_inodes_count |-> superblock.s_free_inodes_count],
                  bg |-> block_groups]
    /\ block_bitmap = [g \in Groups |->
          [i \in 0..(blocks_per_group - 1) |->
              IF i + s_first_data_block <= ROOT_BLOCK
                 \/ i + s_first_data_block >= s_blocks_count THEN 1 ELSE 0]]
    /\ inode_bitmap = [g \in Groups |->
          [i \in 0..(EXT2_FIRST_INO - 2 + free_inodes) |->
              IF i + 1 < EXT2_FIRST_INO THEN 1 ELSE 0]]
    /\ inode_table = [n \in 1..(EXT2_FIRST_INO - 1 + free_inodes) |->
          IF n = EXT2_ROOT_INO THEN RootInode ELSE ZeroInode]
    /\ blocks = [b \in DataBlocks |-> IF b = ROOT_BLOCK THEN RootBlock ELSE ZeroBlock]

Mounted(free_blocks, free_inodes) == MountedImage(free_blocks, free_inodes, 0)

RECURSIVE Decimal(_)
Decimal(n) == IF n < 10 THEN <<48 + n>> ELSE Append(Decimal(n \div 10), 48 + (n % 10))
FillPath(n) == <<SLASH, 102>> \o Decimal(n)
FillNumbers == {1, 2, 3, 10, 100, 10000, 10001}
FillPaths == {FillPath(n) : n \in FillNumbers}
\* the N of the last create
LastNumber ==
    IF last.op # "create" THEN 0 ELSE CHOOSE n \in FillNumbers : FillPath(n) = last.path

InitFill ==
    /\ Mounted(NumFreeBlocks, NumFreeInodes)
    /\ files = [h \in Handles |-> NoFile]
    /\ last = NoCall
    /\ created = [p \in FillPaths |-> 0]
    /\ nops = 0
    /\ scheduler_init

NextFill ==
    \E n \in FillNumbers :
        nops < MaxOpsFill /\ n > LastNumber /\ Create(FillPath(n), VFS_TYPE_FILE)

SpecFill == InitFill /\ [][NextFill]_vars

(***************************************************************************)
(* A caller that fills the root directory up to its twelve direct blocks:  *)
(* vfs_create("/f1"), "/f2", ... in turn, every record 12 bytes long, on   *)
(* an image with BigFree free blocks and FullInodes free inodes.  Now and  *)
(* then it unlinks a name that does not exist.                             *)
(***************************************************************************)
FullNumbers == 1..FullInodes
FullPaths == {FillPath(n) : n \in FullNumbers}
AbsentPath == <<SLASH, 122, 122>>
NextNumber == 1 + Cardinality({p \in FullPaths : created[p] # 0})

InitFull ==
    /\ Mounted(BigFree, FullInodes)
    /\ files = [h \in Handles |-> NoFile]
    /\ last = NoCall
    /\ created = [p \in FullPaths \cup {AbsentPath} |-> 0]
    /\ nops = 0
    /\ scheduler_init

NextFull ==
    \/ nops < MaxOpsFull /\ NextNumber \in FullNumbers
       /\ Create(FillPath(NextNumber), VFS_TYPE_FILE)
    \/ nops < MaxOpsFull /\ last.op # "unlink" /\ Unlink(AbsentPath)

SpecFull == InitFull /\ [][NextFull]_vars

(***************************************************************************)
(* A caller that keeps handles across an unlink: "/a" is created once, as  *)
(* the first call, and is the only path opened; "/ab" is created at any    *)
(* time.  Once "/a" is gone, every open handle was opened before its       *)
(* unlink.                                                                 *)
(***************************************************************************)
NextStale ==
    \/ nops < MaxOpsStale /\ nops = 0 /\ Create(PathA, VFS_TYPE_FILE)
    \/ nops < MaxOpsStale /\ nops > 0 /\ Create(PathAB, VFS_TYPE_FILE)
    \/ nops < MaxOpsStale /\ nops > 0 /\ Open(PathA)
    \/ nops < MaxOpsStale /\ nops > 0 /\ Unlink(PathA)
    \/ \E h \in Handles, buffer \in Buffers : nops < MaxOpsStale /\ Write(h, buffer)
    \/ \E h \in Handles, size \in Offsets : nops < MaxOpsStale /\ Read(h, size)
    \/ \E h \in Handles, new_size \in Offsets : nops < MaxOpsStale /\ Truncate(h, new_size)

SpecStale == Init /\ [][NextStale]_vars

(***************************************************************************)
(* A caller of the allocators alone, on an image of two block groups:      *)
(* blocks 1, 2 of group 0 hold metadata, the last bit of group 1 is the    *)
(* padding past s_blocks_count, inodes 1, 2 are reserved.                  *)
(***************************************************************************)
AllocBlocks == 0 .. (2 * AllocPerGroup - 1)
AllocInodes == 0 .. (2 * AllocInodesPerGroup)
BlockId(n) == <<"block", n>>
InodeId(n) == <<"inode", n>>

InitAlloc ==
    /\ global_fs = ImageDevice
    /\ superblock = [s_free_blocks_count |-> 2 * AllocPerGroup - 3,
                     s_free_inodes_count |-> 2 * AllocInodesPerGroup - 2,
                     s_inodes_per_group |-> AllocInodesPerGroup,
                     s_blocks_per_group |-> AllocPerGroup,
                     s_blocks_count |-> 2 * AllocPerGroup,
                     s_log_block_size |-> 0]
    /\ block_groups = [g \in Groups |->
          [bg_free_blocks_count |-> IF g = 0 THEN AllocPerGroup - 2 ELSE AllocPerGroup - 1,
           bg_free_inodes_count |-> IF g = 0 THEN AllocInodesPerGroup - 2
                                    ELSE AllocInodesPerGroup]]
    /\ on_disk = [sb |-> [s_free_blocks_count |-> superblock.s_free_blocks_count,
                          s_free_inodes_count |-> superblock.s_free_inodes_count],
                  bg |-> block_groups]
    /\ block_bitmap = [g \in Groups |->
          [i \in 0..(AllocPerGroup - 1) |->
              IF (g = 0 /\ i < 2) \/ (g = 1 /\ i = AllocPerGroup - 1) THEN 1 ELSE 0]]
    /\ inode_bitmap = [g \in Groups |->
          [i \in 0..(AllocInodesPerGroup - 1) |-> IF g = 0 /\ i < 2 THEN 1 ELSE 0]]
    /\ inode_table = [n \in 1..(2 * AllocInodesPerGroup) |-> ZeroInode]
    /\ blocks = [b \in 1..(2 * AllocPerGroup - 1) |-> ZeroBlock]
    /\ files = [h \in Handles |-> NoFile]
    /\ last = NoCall
    /\ created = [r \in {BlockId(n) : n \in AllocBlocks \cup {2 * AllocPerGroup}}
                        \cup {InodeId(n) : n \in AllocInodes} |-> 0]
    /\ nops = 0
    /\ scheduler_init

AllocBlock ==
    /\ LET r == ext2_alloc_block(Cur)
       IN /\ Commit(r.s)
          /\ last' = [NoCall EXCEPT !.op = "alloc_block", !.ret = r.ret]
          /\ created' = IF r.ret = 0 THEN created
                        ELSE [created EXCEPT ![BlockId(r.ret)] = 1]
    /\ nops' = nops + 1
    /\ UNCHANGED schedvars
    /\ UNCHANGED files

FreeBlock(block_num) ==
    /\ LET r == ext2_free_block(Cur, block_num, FALSE)
       IN /\ Commit(r.s)
          /\ last' = [NoCall EXCEPT !.op = "free_block", !.arg = block_num, !.ret = r.res]
          /\ created' = IF r.res # 0 THEN created
                        ELSE [created EXCEPT ![BlockId(block_num)] = 0]
    /\ nops' = nops + 1
    /\ UNCHANGED schedvars
    /\ UNCHANGED files

AllocInode ==
    /\ LET r == ext2_alloc_inode(Cur)
       IN /\ Commit(r.s)
          /\ last' = [NoCall EXCEPT !.op = "alloc_inode", !.ret = r.ret]
          /\ created' = IF r.ret = 0 THEN created
                        ELSE [created EXCEPT ![InodeId(r.ret)] = 1]
    /\ nops' = nops + 1
    /\ UNCHANGED schedvars
    /\ UNCHANGED files

FreeInode(inode_num) ==
    /\ LET r == ext2_free_inode(Cur, inode_num)
       IN /\ Commit(r.s)
          /\ last' = [NoCall EXCEPT !.op = "free_inode", !.arg = inode_num, !.ret = r.res]
          /\ created' = IF r.res # 0 THEN created
                        ELSE [created EXCEPT ![InodeId(inode_num)] = 0]
    /\ nops' = nops + 1
    /\ UNCHANGED schedvars
    /\ UNCHANGED files

NextAlloc ==
    \/ nops < MaxOpsAlloc /\ AllocBlock
    \/ \E block_num \in AllocBlocks : nops < MaxOpsAlloc /\ FreeBlock(block_num)
    \/ nops < MaxOpsAlloc /\ AllocInode
    \/ \E inode_num \in AllocInodes : nops < MaxOpsAlloc /\ FreeInode(inode_num)

SpecAlloc == InitAlloc /\ [][NextAlloc]_vars

(***************************************************************************)
(* A caller that makes symlinks with targets around the 60 bytes of the    *)
(* i_block area, on an image with s_log_block_size = 1 so that every       *)
(* target fits one block, as 255 bytes fit the 1024 of the smallest ext2   *)
(* block.                                                                  *)
(***************************************************************************)
Target(n) == [i \in 1..n |-> 97 + (i % 5)]
TargetLengths == {1, 2, FAST_SYMLINK_MAX - 1, FAST_SYMLINK_MAX, FAST_SYMLINK_MAX + 1, MaxTarget}
LinkTargets == {Target(n) : n \in TargetLengths}

InitLink ==
    /\ MountedImage(NumFreeBlocks, NumFreeInodes, 1)
    /\ files = [h \in Handles |-> NoFile]
    /\ last = NoCall
    /\ created = [p \in Paths |-> 0]
    /\ nops = 0
    /\ scheduler_init

NextLink ==
    \/ \E p \in IOPaths, target \in LinkTargets : nops < MaxOpsLink /\ CreateSymlink(p, target)
    \/ \E p \in IOPaths, type \in Types : nops < MaxOpsLink /\ Create(p, type)
    \/ \E p \in IOPaths : nops < MaxOpsLink /\ Unlink(p)

SpecLink == InitLink /\ [][NextLink]_vars

(***************************************************************************)
(* Processes, the scheduler and IPC (process.c, sched.c).  A process_t is  *)
(* the record at its heap address; kfree leaves the bytes of a block as    *)
(* they are, so a pointer to a freed process still reads what was there    *)
(* until kmalloc hands the block out again.  system_ticks and next_pid are *)
(* uint32_t; the runs here count a few steps from 0 and never wrap.        *)
(***************************************************************************)
MSG_QUEUE_SIZE == 8
MSG_DATA_SIZE == 32
TASK_RUNNING == 0
TASK_READY == 1
TASK_BLOCKED == 2
TASK_TERMINATED == 3
FAULT == 0 - 1              \* a walk that reads through NULL or never comes back

Addresses == 1..MaxProcs

Kernel == [process_list |-> process_list, current |-> current, system_ticks |-> system_ticks,
           next_pid |-> next_pid, procs |-> procs, heap_used |-> heap_used, panic |-> panic]
KernelPost == [process_list |-> process_list', current |-> current',
               system_ticks |-> system_ticks', next_pid |-> next_pid', procs |-> procs',
               heap_used |-> heap_used', panic |-> panic']
CommitKernel(k) ==
    /\ process_list' = k.process_list
    /\ current' = k.current
    /\ system_ticks' = k.system_ticks
    /\ next_pid' = k.next_pid
    /\ procs' = k.procs
    /\ heap_used' = k.heap_used
    /\ panic' = k.panic
Panic(k) == [k EXCEPT !.panic = TRUE]

\* memset(proc->msg_queue, 0, ...)
ZeroMessage == [from_pid |-> 0, len |-> 0, data |-> [i \in 1..MSG_DATA_SIZE |-> 0]]

\* process_create writing the block kmalloc returned at address proc
NewProcess(pid) ==
    [pid |-> pid, priority |-> 1, time_slice |-> 5, sleep_until |-> 0, state |-> TASK_READY,
     next |-> 0, msg_queue |-> [i \in 0..(MSG_QUEUE_SIZE - 1) |-> ZeroMessage],
     msg_head |-> 0, msg_tail |-> 0]
process_create(k, proc) ==
    [k EXCEPT !.procs = [a \in DOMAIN k.procs \cup {proc} |->
                            IF a = proc THEN NewProcess(k.next_pid) ELSE k.procs[a]],
              !.next_pid = k.next_pid + 1,
              !.heap_used = @ \cup {proc}]

NoCycle == <<FAULT>>
\* p = start; do { ... p = p->next; } while (p != start): the processes visited, in order
RECURSIVE CycleFrom(_, _, _, _)
CycleFrom(k, start, p, seen) ==
    IF p = 0 \/ Len(seen) > MaxProcs THEN NoCycle
    ELSE IF k.procs[p].next = start THEN Append(seen, p)
    ELSE CycleFrom(k, start, k.procs[p].next, Append(seen, p))
Cycle(k, start) == CycleFrom(k, start, start, <<>>)

\* the walk returns at the first match, before it can go wrong further on
RECURSIVE FindFrom(_, _, _, _)
FindFrom(k, p, pid, left) ==
    IF p = 0 THEN FAULT
    ELSE IF k.procs[p].pid = pid THEN p
    ELSE IF k.procs[p].next = k.process_list THEN 0
    ELSE IF left = 0 THEN FAULT
    ELSE FindFrom(k, k.procs[p].next, pid, left - 1)
find_process(k, pid) ==
    IF k.process_list = 0 THEN 0 ELSE FindFrom(k, k.process_list, pid, MaxProcs)

RECURSIVE TailFrom(_, _, _)
TailFrom(k, tail, left) ==
    IF tail = 0 THEN FAULT
    ELSE IF k.procs[tail].next = k.process_list THEN tail
    ELSE IF left = 0 THEN FAULT
    ELSE TailFrom(k, k.procs[tail].next, left - 1)
scheduler_add(k, proc) ==
    IF k.process_list = 0
    THEN [k EXCEPT !.process_list = proc, !.procs[proc].next = proc,
                   !.procs[proc].state = TASK_READY]
    ELSE LET tail == TailFrom(k, k.process_list, MaxProcs)
         IN IF tail = FAULT THEN Panic(k)
            ELSE [k EXCEPT !.procs[tail].next = proc,
                           !.procs[proc].next = k.process_list,
                           !.procs[proc].state = TASK_READY]

\* the do-while of cleanup_terminated, entered with prev and p
RECURSIVE CleanupLoop(_, _, _, _)
CleanupNext(k, prev, p, left) ==
    IF p = k.process_list THEN k
    ELSE IF left = 0 THEN Panic(k)
    ELSE CleanupLoop(k, prev, p, left - 1)
CleanupFree(k, prev, p) ==
    [k EXCEPT !.procs[prev].next = k.procs[p].next,
              !.process_list = IF p = k.process_list THEN k.procs[p].next ELSE @,
              !.current = IF p = k.current THEN k.procs[p].next ELSE @,
              !.heap_used = @ \ {p}]
CleanupLoop(k, prev, p, left) ==
    IF p = 0 THEN Panic(k)
    ELSE IF k.procs[p].state = TASK_TERMINATED
         THEN CleanupNext(CleanupFree(k, prev, p), prev,
                          CleanupFree(k, prev, p).procs[prev].next, left)
         ELSE CleanupNext(k, p, k.procs[p].next, left)
cleanup_terminated(k) ==
    IF k.process_list = 0 THEN k
    ELSE CleanupLoop(k, k.process_list, k.procs[k.process_list].next, 2 * MaxProcs)

\* sched.c:77-82
FirstRun(k) ==
    IF k.current = 0
    THEN [k EXCEPT !.current = k.process_list,
                   !.procs[k.process_list].state = TASK_RUNNING,
                   !.procs[k.process_list].time_slice = 5]
    ELSE k

\* sched.c:84-90
WakeSleepers(k, c) ==
    [k EXCEPT !.procs = [a \in DOMAIN k.procs |->
        IF /\ \E i \in 1..Len(c) : c[i] = a
           /\ k.procs[a].state = TASK_BLOCKED
           /\ k.procs[a].sleep_until <= k.system_ticks
        THEN [k.procs[a] EXCEPT !.state = TASK_READY]
        ELSE k.procs[a]]]

\* sched.c:92-99 and 107-113: the first of the highest priority, 0 when there is none
Eligible(k, p) == k.procs[p].state = TASK_READY /\ k.procs[p].time_slice > 0
RECURSIVE BestOf(_, _, _, _)
BestOf(k, c, i, best) ==
    IF i > Len(c) THEN best
    ELSE IF Eligible(k, c[i]) /\ (best = 0 \/ k.procs[c[i]].priority > k.procs[best].priority)
         THEN BestOf(k, c, i + 1, c[i])
         ELSE BestOf(k, c, i + 1, best)

\* sched.c:102-106
ResetSlices(k, c) ==
    [k EXCEPT !.procs = [a \in DOMAIN k.procs |->
        IF (\E i \in 1..Len(c) : c[i] = a) /\ k.procs[a].state = TASK_READY
        THEN [k.procs[a] EXCEPT !.time_slice = 5]
        ELSE k.procs[a]]]

\* sched.c:115-130
SwitchTo(k, best) ==
    IF best # 0 /\ best # k.current
    THEN [k EXCEPT !.procs[k.current].state = TASK_READY,
                   !.procs[best].state = TASK_RUNNING,
                   !.procs[best].time_slice = @ - 1,
                   !.current = best]
    ELSE IF best # 0 THEN [k EXCEPT !.procs[best].time_slice = @ - 1]
    ELSE k

PickSecond(k, fromList, fromCurrent) ==
    SwitchTo(ResetSlices(k, fromList), BestOf(ResetSlices(k, fromList), fromCurrent, 1, 0))
Pick(k, fromList, fromCurrent) ==
    IF BestOf(k, fromCurrent, 1, 0) # 0 THEN SwitchTo(k, BestOf(k, fromCurrent, 1, 0))
    ELSE PickSecond(k, fromList, fromCurrent)
Schedule(k) ==
    IF Cycle(k, k.process_list) = NoCycle \/ Cycle(k, k.current) = NoCycle THEN Panic(k)
    ELSE Pick(WakeSleepers(k, Cycle(k, k.process_list)), Cycle(k, k.process_list),
              Cycle(k, k.current))
AfterCleanup(k) ==
    IF k.panic \/ k.process_list = 0 THEN k ELSE Schedule(FirstRun(k))
scheduler_tick(k) == AfterCleanup(cleanup_terminated(k))

process_yield(k) == scheduler_tick(k)

process_exit(k) ==
    process_yield([k EXCEPT !.procs[k.current].state = TASK_TERMINATED])

process_sleep(k, ticks) ==
    process_yield([k EXCEPT !.procs[k.current].sleep_until = k.system_ticks + ticks,
                            !.procs[k.current].state = TASK_BLOCKED])

\* memcpy(m->data, msg, m->len) into the slot, whose other bytes stay
Stored(slot, from_pid, msg, len) ==
    [from_pid |-> from_pid, len |-> Min(len, MSG_DATA_SIZE),
     data |-> [i \in 1..MSG_DATA_SIZE |->
                  IF i <= Min(len, MSG_DATA_SIZE) THEN msg[i] ELSE slot.data[i]]]
\* send_message without the test for a full queue
DeliverUnchecked(k, dest, msg, len) ==
    [k |-> [k EXCEPT
               !.procs[dest].msg_queue[k.procs[dest].msg_head] =
                   Stored(@, k.procs[k.current].pid, msg, len),
               !.procs[dest].msg_head = (@ + 1) % MSG_QUEUE_SIZE,
               !.procs[dest].state = IF @ = TASK_BLOCKED THEN TASK_READY ELSE @],
     ret |-> 0]
Deliver(k, dest, msg, len) ==
    IF (k.procs[dest].msg_head + 1) % MSG_QUEUE_SIZE = k.procs[dest].msg_tail
    THEN [k |-> k, ret |-> 0 - 2]
    ELSE [k |-> [k EXCEPT
                   !.procs[dest].msg_queue[k.procs[dest].msg_head] =
                       Stored(@, k.procs[k.current].pid, msg, len),
                   !.procs[dest].msg_head = (@ + 1) % MSG_QUEUE_SIZE,
                   !.procs[dest].state = IF @ = TASK_BLOCKED THEN TASK_READY ELSE @],
          ret |-> 0]
send_message(k, dest_pid, msg, len) ==
    IF find_process(k, dest_pid) = FAULT THEN [k |-> Panic(k), ret |-> 0]
    ELSE IF find_process(k, dest_pid) = 0 THEN [k |-> k, ret |-> 0 - 1]
    ELSE Deliver(k, find_process(k, dest_pid), msg, len)

receive_message(k) ==
    IF k.procs[k.current].msg_head = k.procs[k.current].msg_tail
    THEN [k |-> k, ret |-> 0 - 1, out_msg |-> ZeroMessage]
    ELSE [k |-> [k EXCEPT !.procs[k.current].msg_tail = (@ + 1) % MSG_QUEUE_SIZE],
          ret |-> 0,
          out_msg |-> k.procs[k.current].msg_queue[k.procs[k.current].msg_tail]]

(***************************************************************************)
(* The kernel's threads as callers of the process interface.  The thread   *)
(* that runs is the boot thread while current is NULL and the process      *)
(* current afterwards; a process inside the hlt loop of process_exit calls *)
(* nothing more, and only the timer interrupt still happens.               *)
(***************************************************************************)
Runs == ~panic /\ (current = 0 \/ current \notin halted)
Caller == IF current = 0 THEN 0 ELSE procs[current].pid

\* kernel.c:841-842: process_create, then scheduler_add of what it returned
Spawn(proc) ==
    /\ Runs
    /\ proc \notin heap_used
    /\ CommitKernel(scheduler_add(process_create(Kernel, proc), proc))
    /\ halted' = halted \ {proc}
    /\ last' = [op |-> "spawn", pid |-> Caller, proc |-> proc, arg |-> next_pid, ret |-> 0]
    /\ nops' = nops + 1
    /\ UNCHANGED <<need_resched, fsvars, files, created>>

timer_irq_handler ==
    /\ ~panic
    /\ system_ticks' = system_ticks + 1
    /\ need_resched' = 1
    /\ last' = [op |-> "timer", pid |-> Caller, proc |-> current, arg |-> 0, ret |-> 0]
    /\ nops' = nops + 1
    /\ UNCHANGED <<process_list, current, next_pid, procs, heap_used, halted, panic,
                   fsvars, files, created>>

scheduler_maybe_resched ==
    /\ Runs
    /\ need_resched' = 0
    /\ CommitKernel(IF need_resched # 0 THEN process_yield(Kernel) ELSE Kernel)
    /\ last' = [op |-> "resched", pid |-> Caller, proc |-> current, arg |-> need_resched,
                ret |-> 0]
    /\ nops' = nops + 1
    /\ UNCHANGED <<halted, fsvars, files, created>>

Sleep(ticks) ==
    /\ Runs /\ current # 0
    /\ CommitKernel(process_sleep(Kernel, ticks))
    /\ last' = [op |-> "sleep", pid |-> Caller, proc |-> current, arg |-> ticks, ret |-> 0]
    /\ nops' = nops + 1
    /\ UNCHANGED <<need_resched, halted, fsvars, files, created>>

Exit ==
    /\ Runs /\ current # 0
    /\ CommitKernel(process_exit(Kernel))
    /\ halted' = halted \cup {current}
    /\ last' = [op |-> "exit", pid |-> Caller, proc |-> current, arg |-> 0, ret |-> 0]
    /\ nops' = nops + 1
    /\ UNCHANGED <<need_resched, fsvars, files, created>>

Send(dest_pid, msg) ==
    /\ Runs /\ current # 0
    /\ LET r == send_message(Kernel, dest_pid, msg, Len(msg))
       IN /\ CommitKernel(r.k)
          /\ last' = [op |-> "send", pid |-> Caller, proc |-> current, arg |-> dest_pid,
                      msg |-> msg, ret |-> r.ret]
    /\ nops' = nops + 1
    /\ UNCHANGED <<need_resched, halted, fsvars, files, created>>

Receive ==
    /\ Runs /\ current # 0
    /\ LET r == receive_message(Kernel)
       IN /\ CommitKernel(r.k)
          /\ last' = [op |-> "receive", pid |-> Caller, proc |-> current, arg |-> 0,
                      ret |-> r.ret, out_msg |-> r.out_msg]
    /\ nops' = nops + 1
    /\ UNCHANGED <<need_resched, halted, fsvars, files, created>>

Payload(n, v) == [i \in 1..n |-> v]
SleepTicks == {MaxSleep}
SchedPids == 1..2

NextSched ==
    \/ \E proc \in Addresses : nops < MaxOpsSched /\ Spawn(proc)
    \/ nops < MaxOpsSched /\ timer_irq_handler
    \/ nops < MaxOpsSched /\ scheduler_maybe_resched
    \/ \E ticks \in SleepTicks : nops < MaxOpsSched /\ Sleep(ticks)
    \/ nops < MaxOpsSched /\ Exit
    \/ \E dest_pid \in SchedPids : nops < MaxOpsSched /\ Send(dest_pid, Payload(1, 7))
    \/ nops < MaxOpsSched /\ Receive

SpecSched == Init /\ [][NextSched]_vars

(***************************************************************************)
(* The IPC caller: two processes after boot (kernel.c:841-845) and the     *)
(* first scheduler_tick, pid 2 running; in some runs pid 2 has already     *)
(* sent Prefill messages to pid 1.  Both send and receive in any order,    *)
(* and the timer and scheduler_maybe_resched change who runs.              *)
(***************************************************************************)
Booted ==
    scheduler_tick(
        scheduler_add(process_create(
            scheduler_add(process_create(
                [process_list |-> 0, current |-> 0, system_ticks |-> 1, next_pid |-> 1,
                 procs |-> <<>>, heap_used |-> {}, panic |-> FALSE], 1), 1), 2), 2))
RECURSIVE Prefilled(_, _)
Prefilled(k, n) ==
    IF n = 0 THEN k
    ELSE send_message(Prefilled(k, n - 1), 1, Payload(MSG_DATA_SIZE, 10 + n), MSG_DATA_SIZE).k
IPCMessages == {Payload(2, 5), Payload(MSG_DATA_SIZE + 1, 6)}
IPCPids == 1..3

InitIPC ==
    /\ \E n \in {0, Prefill} :
          /\ process_list = Prefilled(Booted, n).process_list
          /\ current = Prefilled(Booted, n).current
          /\ system_ticks = Prefilled(Booted, n).system_ticks
          /\ next_pid = Prefilled(Booted, n).next_pid
          /\ procs = Prefilled(Booted, n).procs
          /\ heap_used = Prefilled(Booted, n).heap_used
          /\ panic = Prefilled(Booted, n).panic
    /\ need_resched = 0
    /\ halted = {}
    /\ nops = 0
    /\ last = [op |-> "boot", pid |-> 0, proc |-> 0, arg |-> 0, ret |-> 0]
    /\ created = [p \in Paths |-> 0]
    /\ files = [h \in Handles |-> NoFile]
    /\ global_fs = 0
    /\ superblock = [s_free_blocks_count |-> 0, s_free_inodes_count |-> 0,
                     s_inodes_per_group |-> 0, s_blocks_per_group |-> 1,
                     s_blocks_count |-> 1,
                     s_log_block_size |-> 0]
    /\ on_disk = [sb |-> [s_free_blocks_count |-> 0, s_free_inodes_count |-> 0],
                  bg |-> <<>>]
    /\ block_groups = <<>>
    /\ block_bitmap = <<>>
    /\ inode_bitmap = <<>>
    /\ inode_table = <<>>
    /\ blocks = <<>>

NextIPC ==
    \/ \E dest_pid \in IPCPids, msg \in IPCMessages : nops < MaxOpsIPC /\ Send(dest_pid, msg)
    \/ nops < MaxOpsIPC /\ Receive
    \/ nops < MaxOpsIPC /\ timer_irq_handler
    \/ nops < MaxOpsIPC /\ scheduler_maybe_resched

SpecIPC == InitIPC /\ [][NextIPC]_vars

(***************************************************************************)
(* Mounting (ext2_mount over ext2_init).  A device is what ext2_init reads *)
(* of it: its block_count in sectors and the superblock fields at byte     *)
(* 1024.  global_fs is 0 (NULL) or the device the filesystem was read      *)
(* from.                                                                   *)
(***************************************************************************)
Image(sectors, magic, per_group) ==
    [block_count |-> sectors, s_magic |-> magic, s_blocks_count |-> 8,
     s_blocks_per_group |-> per_group, s_first_data_block |-> 1, s_log_block_size |-> 0]
ValidImage == Image(16, EXT2_MAGIC, 8)
Images ==
    {ValidImage,
     Image(16, 0, 8),                   \* a zeroed device
     Image(16, EXT2_MAGIC + 1, 8),      \* another magic
     Image(2, EXT2_MAGIC, 8),           \* too short to hold the superblock
     Image(4, EXT2_MAGIC, 8),           \* too short to hold the group descriptors
     Image(16, EXT2_MAGIC, 0)}          \* no blocks per group
Devices == 1..NumDevices

\* blockdev_read(device, block, count, ...) on a RAM disk of block_count sectors
DeviceReadFails(dev, block, count) ==
    block >= dev.block_count \/ block + count > dev.block_count

\* the group descriptors read through ext2_read_blocks; NULL (0) when it fails
InitDescriptors(dev, d, num_block_groups_) ==
    LET fs_block_size == 1024 * (2 ^ dev.s_log_block_size)
        bgd_blocks == (num_block_groups_ * 32 + fs_block_size - 1) \div fs_block_size
        blocks_per_fs_block == fs_block_size \div RAMDISK_BLOCK_SIZE
    IN IF DeviceReadFails(dev, (dev.s_first_data_block + 1) * blocks_per_fs_block,
                          bgd_blocks * blocks_per_fs_block)
       THEN 0 ELSE d

\* ext2_init without the test of the magic number
InitAnyMagic(dev, d, trap) ==
    IF d = 0 THEN {0}
    ELSE IF DeviceReadFails(dev, EXT2_SUPERBLOCK_OFFSET \div RAMDISK_BLOCK_SIZE, 2) THEN {0}
    ELSE IF dev.s_blocks_per_group = 0 THEN trap
    ELSE {InitDescriptors(dev, d,
              (dev.s_blocks_count + dev.s_blocks_per_group - 1) \div dev.s_blocks_per_group)}

\* ext2_init(device): the set of handles it may return.  Dividing by a zero
\* s_blocks_per_group is undefined: trap is what the build makes of it.
ext2_init(dev, d, trap) ==
    IF d = 0 THEN {0}
    ELSE IF DeviceReadFails(dev, EXT2_SUPERBLOCK_OFFSET \div RAMDISK_BLOCK_SIZE, 2) THEN {0}
    ELSE IF dev.s_magic # EXT2_MAGIC THEN {0}
    ELSE IF dev.s_blocks_per_group = 0 THEN trap
    ELSE {InitDescriptors(dev, d,
              (dev.s_blocks_count + dev.s_blocks_per_group - 1) \div dev.s_blocks_per_group)}

\* ext2_mount(device) with ext2_init returning fs
ext2_mount(mounted, fs) ==
    IF mounted # 0 THEN [ret |-> -1, global_fs |-> mounted]
    ELSE IF fs = 0 THEN [ret |-> -1, global_fs |-> 0]
    ELSE [ret |-> 0, global_fs |-> fs]

NoImage == Image(0, 0, 0)
\* d = 0 is the NULL device
DeviceOf(d) == IF d = 0 THEN NoImage ELSE blocks[d]

InitMount ==
    /\ global_fs = 0
    /\ blocks \in [Devices -> Images]
    /\ last = [op |-> "boot", dev |-> 0, ret |-> 0]
    /\ nops = 0
    /\ scheduler_init
    /\ superblock = [s_free_blocks_count |-> 0, s_free_inodes_count |-> 0,
                     s_inodes_per_group |-> 0, s_blocks_per_group |-> 1,
                     s_blocks_count |-> 1,
                     s_log_block_size |-> 0]
    /\ on_disk = [sb |-> [s_free_blocks_count |-> 0, s_free_inodes_count |-> 0],
                  bg |-> <<>>]
    /\ block_groups = <<>>
    /\ block_bitmap = <<>>
    /\ inode_bitmap = <<>>
    /\ inode_table = <<>>
    /\ files = [h \in Handles |-> NoFile]
    /\ created = [p \in Paths |-> 0]

Mount(d) ==
    /\ \E fs \in ext2_init(DeviceOf(d), d, {0, d}) :
         LET r == ext2_mount(global_fs, fs)
         IN /\ global_fs' = r.global_fs
            /\ last' = [op |-> "mount", dev |-> d, ret |-> r.ret]
    /\ nops' = nops + 1
    /\ UNCHANGED schedvars
    /\ UNCHANGED <<superblock, on_disk, block_groups, block_bitmap, inode_bitmap,
                   inode_table, blocks, files, created>>

\* the caller writes another image to a device it holds
Format(d, image) ==
    /\ blocks' = [blocks EXCEPT ![d] = image]
    /\ last' = [op |-> "format", dev |-> d, ret |-> 0]
    /\ nops' = nops + 1
    /\ UNCHANGED schedvars
    /\ UNCHANGED <<global_fs, superblock, on_disk, block_groups, block_bitmap, inode_bitmap,
                   inode_table, files, created>>

NextMount ==
    \/ \E d \in Devices \cup {0} : nops < MaxOpsMount /\ Mount(d)
    \/ \E d \in Devices, image \in Images : nops < MaxOpsMount /\ Format(d, image)

SpecMount == InitMount /\ [][NextMount]_vars

(***************************************************************************)
(* What a caller can observe of a state.                                   *)
(***************************************************************************)
\* path resolves to inode n whatever lies behind the buffers
Resolves(s, path, n) == \A oob \in OobBytes : ext2_path_to_inode(s, path, oob) = n
InodeOf(s, path) == ext2_path_to_inode(s, path, 0)

IsRegular(inode) == vfs_get_type_from_mode(inode.i_mode) = VFS_TYPE_FILE

InodeBit(s, n) ==
    s.ibm[(n - 1) \div s.sb.s_inodes_per_group][(n - 1) % s.sb.s_inodes_per_group]
BlockBit(s, b) ==
    s.bbm[(b - s_first_data_block) \div blocks_per_group]
         [(b - s_first_data_block) % blocks_per_group]

\* the live records of a directory's bytes, in walk order
RECURSIVE LiveEntries(_, _)
LiveEntries(buf, offset) ==
    IF offset >= Len(buf) THEN <<>>
    ELSE LET rec_len == U16(buf, offset + 4, 0)
             e == [inode |-> U32(buf, offset, 0),
                   name |-> NameBytes(buf, offset, Peek(buf, offset + 6, 0), 0)]
         IN IF rec_len = 0 THEN <<>>
            ELSE (IF e.inode # 0 THEN <<e>> ELSE <<>>)
                 \o LiveEntries(buf, offset + rec_len)

DirEntries(s, dir_inode) ==
    LET d == ReadDir(s, dir_inode)
    IN IF d.res = -1 THEN <<>> ELSE LiveEntries(d.buf, 0)

EntryCount(s, dir_inode, name) ==
    LET es == DirEntries(s, dir_inode)
    IN Cardinality({i \in 1..Len(es) : es[i].name = name})

DotNames == {<<DOT>>, <<DOT, DOT>>}

\* the data blocks an inode maps directly
OwnBlocks(inode) ==
    {inode.i_block[i] : i \in 0..(NDIRECT - 1)} \cap DataBlocks

(***************************************************************************)
(* C1.  Original statement: after vfs_write(F, B) at position 0, seeking   *)
(* to 0 and reading |B| bytes returns exactly B, and vfs_stat reports the  *)
(* size |B| for F.                                                         *)
(***************************************************************************)
ReadBack(s, file, buffer) ==
    LET r == vfs_read(s, vfs_seek(file, 0), Len(buffer))
    IN r.ret = Len(buffer) /\ r.buf = buffer

StatSizes(s, ino) ==
    {vfs_stat(s, p, 0).size : p \in {q \in Paths : vfs_stat(s, q, 0).inode = ino}}

C1_Original ==
    [][(last'.op = "write" /\ last'.arg = 0)
       => /\ ReadBack(Post, files'[last'.h], last'.buf)
          /\ StatSizes(Post, last'.ino) \subseteq {Len(last'.buf)}]_vars

\* C1, amended: when F's inode is a regular file and vfs_write(F, B) at
\* position 0 returns |B|, seeking to 0 and reading |B| bytes returns exactly
\* B, and vfs_stat reports for F the larger of the size before the write
\* and |B|.
C1_WriteReadBack ==
    [][(/\ last'.op = "write" /\ last'.arg = 0
        /\ last'.ret = Len(last'.buf)
        /\ IsRegular(inode_table[last'.ino]))
       => /\ ReadBack(Post, files'[last'.h], last'.buf)
          /\ StatSizes(Post, last'.ino)
                \subseteq {Max(inode_table[last'.ino].i_size, Len(last'.buf))}]_vars

\* a complete write at position 0 over a longer regular file that has a name
C1_Witness ==
    /\ last.op = "write" /\ last.arg = 0 /\ last.ret = Len(last.buf)
    /\ IsRegular(inode_table[last.ino])
    /\ inode_table[last.ino].i_size > Len(last.buf)
    /\ StatSizes(Cur, last.ino) # {}
    /\ ReadBack(Cur, files[last.h], last.buf)

(***************************************************************************)
(* C2.  Every path whose vfs_create returned 0 and that was not unlinked   *)
(* since exists, and vfs_stat reports for it the inode the create          *)
(* allocated.                                                              *)
(***************************************************************************)
C2_CreatedResolves ==
    \A p \in Paths :
        created[p] # 0 =>
            \A oob \in OobBytes :
                /\ vfs_exists(Cur, p, oob) = 1
                /\ vfs_stat(Cur, p, oob).inode = created[p]

(***************************************************************************)
(* C3.  vfs_unlink of an existing regular file whose i_links_count is 1    *)
(* returns 0; afterwards the path does not exist, vfs_stat returns -1, the *)
(* inode's bitmap bit is clear and so are the bits of its direct blocks.   *)
(***************************************************************************)
C3_UnlinkFile ==
    [][\A p \in Paths : \A n \in 1..s_inodes_count :
        (/\ last'.op = "unlink" /\ last'.path = p
         /\ Resolves(Cur, p, n)
         /\ IsRegular(inode_table[n]) /\ ~IsDirMode(inode_table[n].i_mode)
         /\ inode_table[n].i_links_count = 1)
        => /\ last'.ret = 0
           /\ \A oob \in OobBytes :
                 /\ vfs_exists(Post, p, oob) = 0
                 /\ vfs_stat(Post, p, oob).res = -1
           /\ InodeBit(Post, n) = 0
           /\ \A b \in OwnBlocks(inode_table[n]) : BlockBit(Post, b) = 0]_vars

(***************************************************************************)
(* C4.  For an existing directory other than the root, vfs_unlink returns  *)
(* 0 exactly when its live entries are "." and ".." alone; with any other  *)
(* live entry it returns -1 and leaves the directory, the parent's entries *)
(* and the parent's link count as they were.                               *)
(***************************************************************************)
C4_UnlinkDir ==
    [][\A p \in Paths : \A n \in 1..s_inodes_count :
        (/\ last'.op = "unlink" /\ last'.path = p
         /\ Resolves(Cur, p, n) /\ n # EXT2_ROOT_INO
         /\ IsDirMode(inode_table[n].i_mode))
        => LET es == DirEntries(Cur, inode_table[n])
               names == {es[i].name : i \in 1..Len(es)}
               pn == InodeOf(Cur, ParentPath(p))
           IN /\ (last'.ret = 0) <=> (Len(es) = 2 /\ names = DotNames)
              /\ names \ DotNames # {}
                    => /\ last'.ret = -1
                       /\ inode_table'[n] = inode_table[n]
                       /\ inode_table'[pn] = inode_table[pn]
                       /\ blocks' = blocks]_vars

(***************************************************************************)
(* C5.  vfs_create on a path that already exists returns -1, adds no       *)
(* second entry of that name to the parent and allocates no inode.         *)
(***************************************************************************)
C5_CreateExisting ==
    [][\A p \in Paths :
        (/\ last'.op = "create" /\ last'.path = p
         /\ \A oob \in OobBytes : vfs_exists(Cur, p, oob) = 1)
        => LET pn == InodeOf(Cur, ParentPath(p))
           IN /\ last'.ret = -1
              /\ EntryCount(Post, inode_table'[pn], LastName(p))
                    = EntryCount(Cur, inode_table[pn], LastName(p))
              /\ inode_bitmap' = inode_bitmap]_vars

(***************************************************************************)
(* C6.  vfs_create and vfs_create_symlink whose parent path resolves to a  *)
(* regular file or a symlink return -1 and modify neither the parent inode *)
(* nor any of its data blocks.                                             *)
(***************************************************************************)
C6_ParentNotDir ==
    [][\A p \in Paths : \A pn \in 1..s_inodes_count :
        (/\ last'.op \in {"create", "symlink"} /\ last'.path = p
         /\ SplitOk(p)
         /\ Resolves(Cur, ParentPath(p), pn)
         /\ ~IsDirMode(inode_table[pn].i_mode))
        => /\ last'.ret = -1
           /\ inode_table'[pn] = inode_table[pn]
           /\ \A b \in OwnBlocks(inode_table[pn]) : blocks'[b] = blocks[b]]_vars

(***************************************************************************)
(* C7.  After any sequence of additions and removals, in every block of    *)
(* every directory each record's rec_len is a multiple of 4 and at least   *)
(* 8 + round_up_4(name_len), and the rec_lens of the block sum to          *)
(* block_size.                                                             *)
(***************************************************************************)
RECURSIVE RecordsTile(_, _)
RecordsTile(block, offset) ==
    IF offset = block_size THEN TRUE
    ELSE IF offset + 8 > block_size THEN FALSE
    ELSE LET rec_len == U16(block, offset + 4, 0)
         IN /\ rec_len % 4 = 0
            /\ rec_len >= 8 + Round4(Peek(block, offset + 6, 0))
            /\ offset + rec_len <= block_size
            /\ RecordsTile(block, offset + rec_len)

Directories ==
    {n \in 1..s_inodes_count : InodeBit(Cur, n) = 1 /\ IsDirMode(inode_table[n].i_mode)}

C7_RecordsTile ==
    \A n \in Directories :
        \A b \in OwnBlocks(inode_table[n]) : RecordsTile(blocks[b], 0)

(***************************************************************************)
(* C8.  Every directory vfs_create reports created holds an entry "."      *)
(* naming itself and an entry ".." naming its parent, also when a block    *)
(* allocation fails during the create.                                     *)
(***************************************************************************)
C8_DotEntries ==
    [][\A p \in Paths :
        (/\ last'.op = "create" /\ last'.path = p
         /\ last'.arg = VFS_TYPE_DIR /\ last'.ret = 0)
        => LET n == last'.ino
               pn == InodeOf(Cur, ParentPath(p))
           IN \A oob \in OobBytes :
                 /\ ext2_find_dir_entry(Post, inode_table'[n], <<DOT>>, oob)
                       = [res |-> 0, inode |-> n]
                 /\ ext2_find_dir_entry(Post, inode_table'[n], <<DOT, DOT>>, oob)
                       = [res |-> 0, inode |-> pn]]_vars

(***************************************************************************)
(* C9.  After any sequence of calls, stale handles included, the free      *)
(* counts of the superblock and of each group descriptor equal the number  *)
(* of clear bits of the block and inode bitmaps.                           *)
(***************************************************************************)
RECURSIVE SumOver(_, _)
SumOver(f, S) ==
    IF S = {} THEN 0
    ELSE LET x == CHOOSE y \in S : TRUE IN f[x] + SumOver(f, S \ {x})

\* bits of a block bitmap that stand for blocks of the device
DeviceBits(g) ==
    {i \in 0..(blocks_per_group - 1) :
        g * blocks_per_group + i + s_first_data_block < s_blocks_count}
FreeBlockBits(g) == Cardinality({i \in DeviceBits(g) : block_bitmap[g][i] = 0})
FreeInodeBits(g) == Cardinality(ClearBits(inode_bitmap[g]))

C9_CountersMatch ==
    /\ \A g \in Groups :
          /\ block_groups[g].bg_free_blocks_count = FreeBlockBits(g)
          /\ block_groups[g].bg_free_inodes_count = FreeInodeBits(g)
    /\ superblock.s_free_blocks_count = SumOver([g \in Groups |-> FreeBlockBits(g)], Groups)
    /\ superblock.s_free_inodes_count = SumOver([g \in Groups |-> FreeInodeBits(g)], Groups)

(***************************************************************************)
(* C10.  After vfs_create_symlink(L, T) with T resolving to a regular      *)
(* file, vfs_open(L) returns a handle (not NULL) on the inode vfs_stat(T)  *)
(* reports, at position 0.                                                 *)
(***************************************************************************)
C10_OpenThroughLink ==
    [][\A p \in Paths : \A target \in Targets :
        (/\ last'.op = "symlink" /\ last'.path = p /\ last'.buf = target
         /\ last'.ret = 0
         /\ \A oob \in OobBytes :
               /\ vfs_stat(Post, target, oob).res = 0
               /\ vfs_stat(Post, target, oob).type = VFS_TYPE_FILE)
        => \A oob \in OobBytes :
              LET f == vfs_open(Post, p, oob)
              IN /\ f # NoFile
                 /\ f.inode = vfs_stat(Post, target, oob).inode
                 /\ f.position = 0]_vars

(***************************************************************************)
(* C11.  vfs_open on a name that heads a chain of k symlinks, 1 <= k <= 8, *)
(* whose last target is a regular file returns a handle on that file's     *)
(* inode.                                                                  *)
(***************************************************************************)
\* the inode a chain of symlinks starting at inode n ends at, and the number
\* of symlinks passed on the way; links is -1 when a target does not resolve,
\* and the walk gives up past MAX_SYMLINK_DEPTH + 1 symlinks
RECURSIVE ChainEnd(_, _, _)
ChainEnd(s, n, links) ==
    IF n = 0 THEN [links |-> -1, inode |-> 0]
    ELSE IF ~IsLnkMode(s.itab[n].i_mode) THEN [links |-> links, inode |-> n]
    ELSE IF links > MAX_SYMLINK_DEPTH THEN [links |-> links, inode |-> 0]
    ELSE ChainEnd(s, TargetInode(s, ext2_read_symlink(s, s.itab[n], 256), 0), links + 1)

ChainFrom(s, p) == ChainEnd(s, InodeOf(s, p), 0)

C11_OpenFollowsChain ==
    [][\A p \in ChainPaths :
        (/\ last'.op = "open" /\ last'.path = p
         /\ ChainFrom(Cur, p).links \in 1..MAX_SYMLINK_DEPTH
         /\ ChainFrom(Cur, p).inode # 0
         /\ IsRegular(inode_table[ChainFrom(Cur, p).inode]))
        => /\ last'.h # 0
           /\ files'[last'.h].inode = ChainFrom(Cur, p).inode]_vars

(***************************************************************************)
(* C12.  vfs_open on a name that needs more than 8 symlink redirections,   *)
(* cyclic chains included, returns NULL and allocates no handle.           *)
(***************************************************************************)
C12_OpenDepthExceeded ==
    [][\A p \in ChainPaths :
        (/\ last'.op = "open" /\ last'.path = p
         /\ ChainFrom(Cur, p).links > MAX_SYMLINK_DEPTH)
        => /\ last'.h = 0
           /\ files' = files]_vars

\* a name nine symlinks away from a regular file was opened, and no handle came back
C12_Witness ==
    /\ last.op = "open" /\ last.h = 0
    /\ ChainFrom(Cur, last.path).links = MAX_SYMLINK_DEPTH + 1
    /\ ChainFrom(Cur, last.path).inode # 0
    /\ IsRegular(inode_table[ChainFrom(Cur, last.path).inode])

(***************************************************************************)
(* C13.  vfs_truncate(F, n) with n at most the size of F's inode returns   *)
(* 0, sets the inode's size and the handle's cached size to n and clamps   *)
(* the handle's position to n; vfs_seek(F, 0) and vfs_read(F, m) with      *)
(* m >= n then return exactly the first n bytes of the previous content.   *)
(***************************************************************************)
\* the bytes of an inode, as ext2_read_file returns them from offset 0
Content(s, ino) == ext2_read_file(s, s.itab[ino], 0, s.itab[ino].i_size).buf

ReadsPrefix(s, file, n, m, content) ==
    LET r == vfs_read(s, vfs_seek(file, 0), m)
    IN r.ret = n /\ r.buf = SubSeq(content, 1, n)

Truncated(h, n) ==
    /\ last'.ret = 0
    /\ inode_table'[last'.ino].i_size = n
    /\ files'[h].size = n
    /\ files'[h].position = Min(files[h].position, n)
    /\ \A m \in n..(n + 1) : ReadsPrefix(Post, files'[h], n, m, Content(Cur, last'.ino))

C13_TruncateShrinks ==
    [][\A h \in Handles : \A n \in Offsets :
        (/\ last'.op = "truncate" /\ last'.h = h /\ last'.arg = n
         /\ n <= inode_table[last'.ino].i_size)
        => Truncated(h, n)]_vars

\* the same for n strictly below the inode's size
C13_StrictShrink ==
    [][\A h \in Handles : \A n \in Offsets :
        (/\ last'.op = "truncate" /\ last'.h = h /\ last'.arg = n
         /\ n < inode_table[last'.ino].i_size)
        => Truncated(h, n)]_vars

(***************************************************************************)
(* C14.  "/a/b", "/a//b" and "/a/b/" resolve alike: vfs_stat fails for all *)
(* three or succeeds for all three with the same stat, and vfs_exists and  *)
(* ext2_path_to_inode give the same answer for the three spellings.        *)
(***************************************************************************)
\* "/a//b" and "/a/b/" for "/a/b"
DoubledSlash(path) ==
    SubSeq(path, 1, LastSlash(path)) \o <<SLASH>> \o SubSeq(path, LastSlash(path) + 1, Len(path))
TrailingSlash(path) == path \o <<SLASH>>
Spellings(path) == {path, DoubledSlash(path), TrailingSlash(path)}

SameResolution(path) ==
    \A oob \in OobBytes : \A q \in Spellings(path) :
        /\ vfs_exists(Cur, q, oob) = vfs_exists(Cur, path, oob)
        /\ ext2_path_to_inode(Cur, q, oob) = ext2_path_to_inode(Cur, path, oob)

C14_SlashInsensitive ==
    /\ SameResolution(PathAA)
    /\ \A oob \in OobBytes : \A q \in Spellings(PathAA) :
          vfs_stat(Cur, q, oob) = vfs_stat(Cur, PathAA, oob)

\* the three spellings resolve to the same inode, whatever name vfs_stat reports
C14_SameInode ==
    /\ SameResolution(PathAA)
    /\ \A oob \in OobBytes : \A q \in Spellings(PathAA) :
          [vfs_stat(Cur, q, oob) EXCEPT !.name = <<>>]
              = [vfs_stat(Cur, PathAA, oob) EXCEPT !.name = <<>>]

(***************************************************************************)
(* C15.  Within one call of vfs_write, vfs_create, vfs_create_symlink or   *)
(* vfs_unlink the device writes come in the order (1) data blocks,         *)
(* (2) bitmaps, (3) inodes, (4) blocks of the parent directory, (5) the    *)
(* parent's inode: no write of a lower class follows one of a higher.      *)
(***************************************************************************)
\* the class of a write, in a call whose parent directory is inode pn with
\* the data blocks pblocks (pn = 0: the call has no parent directory)
WriteClass(w, pn, pblocks) ==
    IF w.class = "bitmap" THEN 2
    ELSE IF w.class = "inode" THEN (IF w.n = pn THEN 5 ELSE 3)
    ELSE IF w.n \in pblocks THEN 4 ELSE 1

InOrder(writes, pn, pblocks) ==
    \A i \in 1..Len(writes) : \A j \in i..Len(writes) :
        WriteClass(writes[i], pn, pblocks) <= WriteClass(writes[j], pn, pblocks)

\* the parent directory of the step's call: its inode and the blocks it has
\* before or after the call
ParentInode == IF last'.path = <<>> THEN 0 ELSE InodeOf(Cur, ParentPath(last'.path))
ParentBlocks ==
    IF ParentInode = 0 THEN {}
    ELSE OwnBlocks(inode_table[ParentInode]) \cup OwnBlocks(inode_table'[ParentInode])

\* the writes the step's call issued
CallWrites ==
    IF last'.op = "create"
    THEN {vfs_create(Cur, last'.path, last'.arg, oob).s.writes : oob \in OobBytes}
    ELSE IF last'.op = "symlink"
    THEN {vfs_create_symlink(Cur, last'.path, last'.buf, oob).s.writes : oob \in OobBytes}
    ELSE IF last'.op = "unlink"
    THEN UNION {{vfs_unlink(Cur, last'.path, k, oob).s.writes :
                    k \in 0..UnlinkStray(Cur, last'.path, oob)} : oob \in OobBytes}
    ELSE IF last'.op = "write"
    THEN {vfs_write(Cur, files[last'.h], last'.buf).s.writes}
    ELSE {}

C15_WriteOrder ==
    [][\A writes \in CallWrites : InOrder(writes, ParentInode, ParentBlocks)]_vars

(***************************************************************************)
(* C16.  After every allocation or free the superblock and the group       *)
(* descriptors on the device are eventually written back, so that their    *)
(* free counts equal the in-memory counters.                               *)
(***************************************************************************)
\* The filesystem has no thread of its own: whatever is written is written
\* inside a call.  The caller of SpecReg may stop calling at any time, except
\* that it closes the handles it holds while it has calls left.
CloseAny == \E h \in Handles : nops < MaxOpsIO /\ Close(h)
SpecRegLive == SpecReg /\ WF_vars(CloseAny)

Persisted ==
    /\ on_disk.sb.s_free_blocks_count = superblock.s_free_blocks_count
    /\ on_disk.sb.s_free_inodes_count = superblock.s_free_inodes_count
    /\ on_disk.bg = block_groups

C16_EventuallyPersisted == [](~Persisted => <>Persisted)

(***************************************************************************)
(* C17.  For every 32-bit length, vfs_read at the handle's position        *)
(* returns 0 when the position is at or past the size of the file and      *)
(* otherwise copies exactly min(length, size - position) bytes, never      *)
(* more, also when position + length passes 2^32 - 1.                      *)
(***************************************************************************)
ReadCount(size, offset, length) ==
    IF offset >= size THEN 0 ELSE UMin(length, size - offset)

C17_ReadClipped ==
    [][\A h \in Handles :
        (/\ last'.op = "read" /\ last'.h = h
         /\ IsRegular(inode_table[last'.ino]))
        => LET n == ReadCount(inode_table[last'.ino].i_size, files[h].position, last'.arg)
           IN /\ last'.ret = n
              /\ Len(last'.buf) = n]_vars

(***************************************************************************)
(* C18.  For every 32-bit first block b and count c: when [b, b + c) is    *)
(* not inside [0, block_count) read and write return non-zero and touch    *)
(* neither the device nor the caller's buffer, also when b + c passes      *)
(* 2^32; when it is inside, read returns the bytes last written there.     *)
(***************************************************************************)
\* [block, block + count) lies in [0, DiskBlocks), on the unsigned values
Contained(block, count) ==
    /\ block >= 0 /\ count >= 0
    /\ block <= DiskBlocks /\ count <= DiskBlocks
    /\ block + count <= DiskBlocks

C18_RangeChecked ==
    [][/\ (last'.op = "blockdev_read" /\ ~Contained(last'.block, last'.count))
            => last'.ret # 0 /\ last'.buf = <<>>
       /\ (last'.op = "blockdev_write" /\ ~Contained(last'.block, last'.count))
            => last'.ret # 0 /\ blocks' = blocks
       /\ (last'.op = "blockdev_read" /\ Contained(last'.block, last'.count)
           /\ last'.count > 0)
            => last'.ret = 0 /\ last'.buf = Sectors(blocks, last'.block, last'.count)
       /\ (last'.op = "blockdev_write" /\ Contained(last'.block, last'.count)
           /\ last'.count > 0)
            => /\ last'.ret = 0
               /\ Sectors(blocks', last'.block, last'.count) = last'.buf
               /\ \A b \in DOMAIN blocks :
                     (b < last'.block \/ b >= last'.block + last'.count)
                        => blocks'[b] = blocks[b]]_vars


(***************************************************************************)
(* C19.  vfs_write never writes or allocates a block at logical index 12   *)
(* or above: a write of n bytes at position p writes only the bytes that   *)
(* fall below 12 * block_size, returns that count (less than n when the    *)
(* range crosses the limit or a block allocation fails), advances the      *)
(* position by the returned count and sets the inode size to               *)
(* max(old size, p + returned count).                                      *)
(***************************************************************************)
\* the bytes of the n-byte write at p that fall below the limit
BelowLimit(p, n) == Min(n, Max(0, DirectLimit - p))
DirectBlocks(inode) == {inode.i_block[i] : i \in 0..(NDIRECT - 1)} \ {0}
BlocksWritten(writes) == {writes[k].n : k \in {j \in 1..Len(writes) : writes[j].class = "block"}}

WriteWithinLimit(h, p, buffer, old, new, ret) ==
    /\ \A i \in NDIRECT..(NIBLOCK - 1) : new.i_block[i] = old.i_block[i]
    /\ BlocksWritten(vfs_write(Cur, files[h], buffer).s.writes) \subseteq DirectBlocks(new)
    /\ ret <= BelowLimit(p, Len(buffer))
    /\ ret < BelowLimit(p, Len(buffer))
          => /\ new.i_block[(p + ret) \div block_size] = 0
             /\ superblock'.s_free_blocks_count = 0
    /\ SubSeq(Content(Post, last'.ino), p + 1, p + ret) = SubSeq(buffer, 1, ret)
    /\ SubSeq(Content(Post, last'.ino), 1, p) = SubSeq(Content(Cur, last'.ino), 1, p)
    /\ SubSeq(Content(Post, last'.ino), p + ret + 1, old.i_size)
          = SubSeq(Content(Cur, last'.ino), p + ret + 1, old.i_size)
    /\ files'[h].position = p + ret
    /\ new.i_size = Max(old.i_size, p + ret)
    /\ files'[h].size = new.i_size

C19_RanOutOfBlocks ==
    /\ last.op = "write"
    /\ last.ret < Len(last.buf)
    /\ last.arg + last.ret < DirectLimit


(***************************************************************************)
(* C20.  After vfs_seek(file, offset) on an open handle the handle's       *)
(* position equals min(offset, size), where size is the current size of    *)
(* the file's inode, whatever writes and truncates were made to the file   *)
(* through any open handle.                                                *)
(***************************************************************************)
\* the handle's file is still the one a name of the tree leads to
Linked(ino) == \E p \in Paths : created[p] = ino

C20_SeekClamped ==
    [][\A h \in Handles :
        (last'.op = "seek" /\ last'.h = h /\ Linked(files[h].inode))
        => files'[h].position = Min(last'.arg, inode_table'[files[h].inode].i_size)]_vars

\* the same on a handle whose cached size is the inode's size
C20_SeekClampedFresh ==
    [][\A h \in Handles :
        (/\ last'.op = "seek" /\ last'.h = h /\ Linked(files[h].inode)
         /\ files[h].size = inode_table[files[h].inode].i_size)
        => files'[h].position = Min(last'.arg, inode_table'[files[h].inode].i_size)]_vars


(***************************************************************************)
(* C21.  vfs_chmod(P, m) on a resolving path replaces the low 9 permission *)
(* bits of the inode mode with m & 0777 and preserves the file-type bits,  *)
(* so vfs_stat(P).type is unchanged; uid, gid, size, links_count and block *)
(* pointers of the inode, and every other inode of the table, are left     *)
(* unchanged.                                                              *)
(***************************************************************************)
ModeChanged(p, n, m) ==
    /\ last'.ret = 0
    /\ inode_table'[n].i_mode % 512 = m % 512
    /\ inode_table'[n].i_mode \div 4096 = inode_table[n].i_mode \div 4096
    /\ \A oob \in OobBytes : vfs_stat(Post, p, oob).type = vfs_stat(Cur, p, oob).type
    /\ inode_table'[n].i_uid = inode_table[n].i_uid
    /\ inode_table'[n].i_gid = inode_table[n].i_gid
    /\ inode_table'[n].i_size = inode_table[n].i_size
    /\ inode_table'[n].i_links_count = inode_table[n].i_links_count
    /\ inode_table'[n].i_block = inode_table[n].i_block
    /\ \A o \in DOMAIN inode_table : o # n => inode_table'[o] = inode_table[o]

C21_ChmodFrame ==
    [][(last'.op = "chmod" /\ last'.ino # 0)
          => ModeChanged(last'.path, last'.ino, last'.arg)]_vars

\* a file owned by somebody had all its permission bits replaced
C21_Witness ==
    /\ last.op = "chmod"
    /\ last.ret = 0
    /\ last.arg = 2541
    /\ \E n \in DOMAIN inode_table :
          /\ n = last.ino
          /\ inode_table[n].i_uid = 1000
          /\ inode_table[n].i_mode = EXT2_S_IFREG + 493


(***************************************************************************)
(* C22.  ext2_mount succeeds only when no filesystem is mounted and the    *)
(* device's superblock magic is 0xEF53: a mount on a device with another   *)
(* magic returns -1 and leaves the system unmounted (a later mount of a    *)
(* valid device can still succeed), and a mount attempted while a          *)
(* filesystem is active returns -1 and leaves the active handle unchanged. *)
(***************************************************************************)
MountChecked(d) ==
    /\ last'.ret = 0 => (global_fs = 0 /\ d # 0 /\ DeviceOf(d).s_magic = EXT2_MAGIC)
    /\ (d # 0 /\ DeviceOf(d).s_magic # EXT2_MAGIC) => last'.ret = -1
    /\ global_fs # 0 => (last'.ret = -1 /\ global_fs' = global_fs)
    /\ (global_fs = 0 /\ last'.ret = -1) => global_fs' = 0
    /\ last'.ret \in {0, -1}
    /\ last'.ret = 0 => global_fs' = d

\* while nothing is mounted, mounting a device that holds a valid image succeeds
MountStillPossible ==
    global_fs' = 0 =>
        \A d \in Devices :
            blocks'[d] = ValidImage
            => \A fs \in ext2_init(blocks'[d], d, {0, d}) : ext2_mount(0, fs).ret = 0

C22_MountChecked ==
    [][last'.op = "mount" => (MountChecked(last'.dev) /\ MountStillPossible)]_vars

\* a device holding a valid image was refused because another one is mounted
C22_Witness ==
    /\ last.op = "mount"
    /\ last.ret = -1
    /\ last.dev # 0
    /\ global_fs \notin {0, last.dev}
    /\ blocks[last.dev] = ValidImage

\* a device with another magic was refused and nothing is mounted
C22_RefusedMagic ==
    /\ last.op = "mount"
    /\ last.ret = -1
    /\ last.dev # 0
    /\ global_fs = 0
    /\ blocks[last.dev] = Image(16, EXT2_MAGIC + 1, 8)


(***************************************************************************)
(* C23.  On a finite image repeated vfs_create("/fN", FILE) with distinct  *)
(* increasing N eventually returns -1; ext2_alloc_block and                *)
(* ext2_alloc_inode return 0 exactly when no clear bit exists in any       *)
(* group's bitmap; and every create that returned 0 before the first       *)
(* failure remains resolvable.                                             *)
(***************************************************************************)
NoClearBit(bms) == \A g \in Groups : ClearBits(bms[g]) = {}
AllocatorsExact ==
    /\ (ext2_alloc_inode(Cur).ret = 0) = NoClearBit(inode_bitmap)
    /\ (ext2_alloc_block(Cur).ret = 0) = NoClearBit(block_bitmap)
Succeeded == {p \in DOMAIN created : created[p] # 0}
NoFailureYet == Cardinality(Succeeded) = nops
\* with no inode left the next create fails
FullImageRefuses ==
    NoClearBit(inode_bitmap)
    => \A n \in FillNumbers : \A oob \in OobBytes :
          vfs_create(Cur, FillPath(n), VFS_TYPE_FILE, oob).ret = -1

C23_FillUntilNoSpace ==
    /\ AllocatorsExact
    /\ FullImageRefuses
    /\ Cardinality(Succeeded) <= NumFreeInodes
    /\ NoFailureYet => \A p \in Succeeded : Resolves(Cur, p, created[p])

\* the parts of the claim that do not ask for the names to resolve
C23_Exhausts ==
    /\ AllocatorsExact
    /\ FullImageRefuses
    /\ Cardinality(Succeeded) <= NumFreeInodes


(***************************************************************************)
(* C24.  ext2_remove_dir_entry(dir, name) returns 0 and removes the entry  *)
(* whenever the directory contains a live entry whose name_len and name    *)
(* bytes equal name, whatever bytes the block holds right after the name;  *)
(* it returns -1 only when no such entry exists.  So the removal succeeds  *)
(* for every name ext2_find_dir_entry finds.                               *)
(***************************************************************************)
EntryNames == {NameA, NameAB, NameLong}

RemovesWhatFindFinds(n, name, oob) ==
    LET f == ext2_find_dir_entry(Cur, inode_table[n], name, oob)
        r == ext2_remove_dir_entry(Cur, inode_table[n], n, name, oob)
    IN /\ f.res = 0 => r.res = 0
       /\ r.res = 0 => EntryCount(r.s, inode_table[n], name)
                          = EntryCount(Cur, inode_table[n], name) - 1
       /\ r.res = -1 => EntryCount(Cur, inode_table[n], name) = 0

C24_RemoveMatchesFind ==
    \A n \in Directories : \A name \in EntryNames : \A oob \in OobBytes :
        RemovesWhatFindFinds(n, name, oob)


(***************************************************************************)
(* C25.  Whenever ext2_add_dir_entry(dir, child, name, type) returns 0, a  *)
(* subsequent ext2_find_dir_entry(dir, name) on the re-read directory      *)
(* inode succeeds; in particular, when no block has slack and all twelve   *)
(* direct slots of the directory are in use, the call does not return      *)
(* success while leaving the new block unassigned and the directory size   *)
(* grown past its mapped blocks.                                           *)
(***************************************************************************)
\* a name the caller never creates, its record 12 bytes long
ProbeName == <<122>>
MappedBytes(inode) == block_size * Cardinality({i \in 0..(NDIRECT - 1) : inode.i_block[i] # 0})

AddedIsFound(dir, child, name, oob) ==
    LET a == ext2_add_dir_entry(Cur, inode_table[dir], dir, child, name, EXT2_FT_REG_FILE, oob)
    IN a.res = 0
       => /\ ext2_find_dir_entry(a.s, a.s.itab[dir], name, oob) = [res |-> 0, inode |-> child]
          /\ a.s.itab[dir].i_size <= MappedBytes(a.s.itab[dir])

C25_AddedIsFound ==
    \A oob \in OobBytes : AddedIsFound(EXT2_ROOT_INO, EXT2_FIRST_INO, ProbeName, oob)



(***************************************************************************)
(* C26.  Inserting or removing one directory entry leaves every other live *)
(* entry of that directory intact: every name m different from the         *)
(* inserted or removed name that ext2_find_dir_entry resolved to inode i   *)
(* before the call still resolves to i after it, whatever the lengths of   *)
(* the names added and removed before (a long name inserted into the slack *)
(* left by removing a short one included).                                 *)
(***************************************************************************)
OthersIntact(s0, s1, n, name, oob) ==
    \A m \in EntryNames \ {name} :
        LET f == ext2_find_dir_entry(s0, s0.itab[n], m, oob)
        IN f.res = 0 => ext2_find_dir_entry(s1, s1.itab[n], m, oob) = f

InsertKeepsOthers(n, name, oob) ==
    LET a == ext2_add_dir_entry(Cur, inode_table[n], n, EXT2_FIRST_INO, name, EXT2_FT_REG_FILE, oob)
    IN a.res = 0 => OthersIntact(Cur, a.s, n, name, oob)

RemoveKeepsOthers(n, name, oob) ==
    LET r == ext2_remove_dir_entry(Cur, inode_table[n], n, name, oob)
    IN r.res = 0 => OthersIntact(Cur, r.s, n, name, oob)

C26_OthersIntact ==
    \A n \in Directories : \A name \in EntryNames : \A oob \in OobBytes :
        InsertKeepsOthers(n, name, oob) /\ RemoveKeepsOthers(n, name, oob)

\* the insertions alone
C26_InsertKeepsOthers ==
    \A n \in Directories : \A name \in EntryNames : \A oob \in OobBytes :
        InsertKeepsOthers(n, name, oob)

\* the removals alone
C26_RemoveKeepsOthers ==
    \A n \in Directories : \A name \in EntryNames : \A oob \in OobBytes :
        RemoveKeepsOthers(n, name, oob)



(***************************************************************************)
(* C27.  Every ext2_free_block call issued by vfs_unlink or vfs_truncate   *)
(* passes a block number that lies in [s_first_data_block, s_blocks_count) *)
(* and was allocated as a data block of the inode being released; in       *)
(* particular unlinking a fast symlink, whose target of at most 60 bytes   *)
(* is stored inline in i_block, frees no block and never indexes the       *)
(* group-descriptor array out of range.                                    *)
(***************************************************************************)
FastSymlink(inode) == IsLnkMode(inode.i_mode) /\ inode.i_size <= FAST_SYMLINK_MAX

FreesOwnBlock(inode, b) ==
    /\ b >= s_first_data_block /\ b < s_blocks_count
    /\ ~FastSymlink(inode)
    /\ BlockBit(Cur, b) = 1

UnlinkFreesOwn ==
    (last'.op = "unlink" /\ last'.ret = 0 /\ InodeOf(Cur, last'.path) # 0)
    => LET inode == inode_table[InodeOf(Cur, last'.path)]
       IN inode.i_links_count = 1
          => \A b \in FreedByUnlink(inode) : FreesOwnBlock(inode, b)

TruncateFreesOwn ==
    (last'.op = "truncate" /\ last'.ret = 0)
    => \A b \in FreedByTruncate(inode_table[last'.ino], last'.arg) :
           FreesOwnBlock(inode_table[last'.ino], b)

C27_FreesOwnBlocks == [][UnlinkFreesOwn /\ TruncateFreesOwn]_vars



(***************************************************************************)
(* C28.  No inode or block is leaked by a create/unlink pair: for a file   *)
(* and for a directory, vfs_create(P, type) returning 0 followed by        *)
(* vfs_unlink(P) returning 0 restores the inode bitmap and the free-inode  *)
(* counters to their values before the create, and clears the block-bitmap *)
(* bit of every data block that was allocated to the removed object (the   *)
(* block holding a new directory's "." and ".." for one).                  *)
(***************************************************************************)
InodesRestored(s) ==
    /\ s.ibm = inode_bitmap
    /\ s.sb.s_free_inodes_count = superblock.s_free_inodes_count
    /\ \A g \in Groups :
          s.bg[g].bg_free_inodes_count = block_groups[g].bg_free_inodes_count

PairRestores(p, type, oob) ==
    LET c == vfs_create(Cur, p, type, oob)
        u == vfs_unlink(c.s, p, 0, oob)
    IN (c.ret = 0 /\ u.ret = 0)
       => /\ InodesRestored(u.s)
          /\ \A b \in OwnBlocks(c.s.itab[c.ino]) : BlockBit(u.s, b) = 0

Absent(p) == \A oob \in OobBytes : vfs_exists(Cur, p, oob) = 0

C28_CreateUnlinkRestores ==
    \A p \in Paths : \A type \in Types : \A oob \in OobBytes :
        Absent(p) => PairRestores(p, type, oob)

\* the pair on a regular file
C28_FilePairRestores ==
    \A p \in Paths : \A oob \in OobBytes :
        Absent(p) => PairRestores(p, VFS_TYPE_FILE, oob)



(***************************************************************************)
(* C29.  A handle opened on a file before that file is unlinked can never  *)
(* damage another file: after vfs_unlink(P) has freed the inode and its    *)
(* blocks, no later vfs_write, vfs_read or vfs_truncate through the stale  *)
(* handle writes to, reads from or frees a block or inode that has since   *)
(* been allocated to a different file, whatever the interleaving of        *)
(* unlink, create and write.                                               *)
(***************************************************************************)
\* under SpecStale: the file the handles were opened on is gone
StaleHandle(h) == files[h].is_open = 1 /\ Absent(PathA)

\* the call just made neither wrote nor freed inode m or a block of it
LeftAlone(m) ==
    /\ inode_table'[m] = inode_table[m]
    /\ InodeBit(Post, m) = InodeBit(Cur, m)
    /\ \A b \in OwnBlocks(inode_table[m]) :
          blocks'[b] = blocks[b] /\ BlockBit(Post, b) = BlockBit(Cur, b)

\* what is reached through h is no inode and no block of m
Apart(h, m) ==
    /\ files[h].inode # m
    /\ OwnBlocks(inode_table[files[h].inode]) \cap OwnBlocks(inode_table[m]) = {}

StaleSpares(p) ==
    (/\ last'.op \in {"write", "read", "truncate"}
     /\ StaleHandle(last'.h)
     /\ InodeOf(Cur, p) # 0)
    => LeftAlone(InodeOf(Cur, p)) /\ Apart(last'.h, InodeOf(Cur, p))

C29_StaleHandleHarmless == [][StaleSpares(PathAB)]_vars



(***************************************************************************)
(* C30.  The allocators never hand out a resource twice: over any sequence *)
(* of ext2_alloc_block / ext2_free_block calls, a block number returned by *)
(* ext2_alloc_block had its bitmap bit clear before the call, has it set   *)
(* after the call, equals group * blocks_per_group + bit_index +           *)
(* s_first_data_block for the lowest clear bit of the first group that has *)
(* one, and is not returned again until it has been freed; symmetrically   *)
(* ext2_alloc_inode returns group * inodes_per_group + bit_index + 1.      *)
(***************************************************************************)
\* bit i of group g is the lowest clear bit of the first group that has one
FirstClear(bms, g, i) ==
    /\ bms[g][i] = 0
    /\ \A j \in DOMAIN bms[g] : j < i => bms[g][j] = 1
    /\ \A h \in Groups : h < g => \A j \in DOMAIN bms[h] : bms[h][j] = 1

BlockHandedOut(n) ==
    /\ BlockBit(Cur, n) = 0
    /\ BlockBit(Post, n) = 1
    /\ \E g \in Groups : \E i \in 0..(blocks_per_group - 1) :
          /\ FirstClear(block_bitmap, g, i)
          /\ n = g * blocks_per_group + i + s_first_data_block
    /\ created[BlockId(n)] = 0

InodeHandedOut(n) ==
    /\ InodeBit(Cur, n) = 0
    /\ InodeBit(Post, n) = 1
    /\ \E g \in Groups : \E i \in 0..(superblock.s_inodes_per_group - 1) :
          /\ FirstClear(inode_bitmap, g, i)
          /\ n = g * superblock.s_inodes_per_group + i + 1
    /\ created[InodeId(n)] = 0

C30_NeverTwice ==
    [][/\ (last'.op = "alloc_block" /\ last'.ret # 0) => BlockHandedOut(last'.ret)
       /\ (last'.op = "alloc_inode" /\ last'.ret # 0) => InodeHandedOut(last'.ret)]_vars

\* every free block of group 0 is handed out and held; the next number comes
\* from group 1
C30_Witness ==
    /\ last.op = "alloc_block"
    /\ last.ret = AllocPerGroup + s_first_data_block
    /\ \A n \in 3..AllocPerGroup : created[BlockId(n)] = 1
    /\ nops = MaxOpsAlloc



(***************************************************************************)
(* C31.  At every point between two block-device writes of vfs_create,     *)
(* vfs_create_symlink and vfs_unlink, each live directory entry on the     *)
(* device references an inode whose inode-bitmap bit is set: create sets   *)
(* the bitmap bit and writes the inode record before writing the parent    *)
(* directory block, and unlink writes the parent directory block (entry    *)
(* removed) before clearing the inode's bitmap bit and its block bits.     *)
(***************************************************************************)
\* the device after one more write of the log
ApplyWrite(s, w) ==
    IF w.class = "block" THEN [s EXCEPT !.blk[w.n] = w.buf]
    ELSE IF w.class = "inode" THEN [s EXCEPT !.itab[w.n] = w.inode]
    ELSE IF w.map = "inode" THEN [s EXCEPT !.ibm[w.group][w.index] = w.bit]
    ELSE IF w.map = "block" THEN [s EXCEPT !.bbm[w.group][w.index] = w.bit]
    ELSE s

\* the device after the first k writes of the log
RECURSIVE DeviceAfter(_, _, _)
DeviceAfter(s, writes, k) ==
    IF k = 0 THEN s ELSE ApplyWrite(DeviceAfter(s, writes, k - 1), writes[k])

DirectoriesOf(s) ==
    {n \in DOMAIN s.itab : InodeBit(s, n) = 1 /\ IsDirMode(s.itab[n].i_mode)}

EntriesAllocated(s) ==
    \A n \in DirectoriesOf(s) :
        LET es == DirEntries(s, s.itab[n])
        IN \A i \in 1..Len(es) :
              es[i].inode \in DOMAIN s.itab /\ InodeBit(s, es[i].inode) = 1

NamespaceCall == last'.op \in {"create", "symlink", "unlink"}

C31_EntriesAllocated ==
    [][NamespaceCall
       => \A writes \in CallWrites : \A k \in 0..Len(writes) :
             EntriesAllocated(DeviceAfter(Cur, writes, k))]_vars

\* the order of the writes alone: in a create, the inode's bit and record come
\* before the first write of a block of the parent; in an unlink, no bit is
\* cleared before the parent's block is written
SetsInodeBit(w) == w.class = "bitmap" /\ w.map = "inode" /\ w.bit = 1
ClearsBit(w) == w.class = "bitmap" /\ w.bit = 0
ParentBlockWrite(w) == w.class = "block" /\ w.n \in ParentBlocks

CreateOrdered(writes) ==
    \A j \in 1..Len(writes) :
        ParentBlockWrite(writes[j])
        => /\ \E i \in 1..(j - 1) : SetsInodeBit(writes[i])
           /\ \E i \in 1..(j - 1) : writes[i].class = "inode" /\ writes[i].n # ParentInode

UnlinkOrdered(writes) ==
    \A j \in 1..Len(writes) :
        ClearsBit(writes[j]) => \E i \in 1..(j - 1) : ParentBlockWrite(writes[i])

C31_WritesOrdered ==
    [][/\ last'.op \in {"create", "symlink"} => \A writes \in CallWrites : CreateOrdered(writes)
       /\ last'.op = "unlink" => \A writes \in CallWrites : UnlinkOrdered(writes)]_vars



(***************************************************************************)
(* C32.  A vfs_create call that returns -1 leaves the filesystem           *)
(* unchanged: when it fails because the type is neither VFS_TYPE_FILE nor  *)
(* VFS_TYPE_DIR, or because the directory entry could not be added, the    *)
(* inode bitmap and the free-inode counters have the same values as before *)
(* the call (the inode allocated at the start of the call is released).    *)
(***************************************************************************)
AnyTypes == {VFS_TYPE_FILE, VFS_TYPE_DIR, VFS_TYPE_SYMLINK}

FailedCreateUnchanged(p, type, oob) ==
    LET c == vfs_create(Cur, p, type, oob)
    IN c.ret = -1 => InodesRestored(c.s)

C32_FailedCreateUnchanged ==
    \A p \in DOMAIN created : \A type \in AnyTypes : \A oob \in OobBytes :
        FailedCreateUnchanged(p, type, oob)



(***************************************************************************)
(* C33.  Directory link counts follow create/unlink: a successful          *)
(* vfs_create(P, DIR) writes the new directory with links_count 2 and      *)
(* increases the parent's on-disk links_count by exactly 1; a successful   *)
(* vfs_unlink of that empty directory decreases the parent's links_count   *)
(* by exactly 1; creating or unlinking a regular file or symlink leaves    *)
(* the parent's links_count unchanged; a failed unlink leaves it           *)
(* unchanged.                                                              *)
(***************************************************************************)
\* the change of the on-disk link count of inode n over the step
LinksDelta(n) == inode_table'[n].i_links_count - inode_table[n].i_links_count

CreateCounts ==
    (last'.op = "create" /\ last'.ret = 0)
    => IF last'.arg = VFS_TYPE_DIR
       THEN LinksDelta(ParentInode) = 1 /\ inode_table'[last'.ino].i_links_count = 2
       ELSE LinksDelta(ParentInode) = 0

SymlinkCounts ==
    (last'.op = "symlink" /\ last'.ret = 0) => LinksDelta(ParentInode) = 0

UnlinkCounts ==
    (last'.op = "unlink" /\ ParentInode # 0)
    => IF last'.ret = 0 /\ InodeOf(Cur, last'.path) # 0
       THEN LinksDelta(ParentInode)
              = IF IsDirMode(inode_table[InodeOf(Cur, last'.path)].i_mode) THEN -1 ELSE 0
       ELSE last'.ret = -1 => LinksDelta(ParentInode) = 0

C33_LinkCounts == [][CreateCounts /\ SymlinkCounts /\ UnlinkCounts]_vars

\* a directory was created in the root and removed again: its inode is left
\* with one link, the root is back at two
C33_Witness ==
    /\ last.op = "unlink" /\ last.ret = 0
    /\ inode_table[EXT2_ROOT_INO].i_links_count = 2
    /\ \E n \in EXT2_FIRST_INO..s_inodes_count :
          IsDirMode(inode_table[n].i_mode) /\ inode_table[n].i_links_count = 1


(***************************************************************************)
(* C34.  Symlink targets round-trip: for every target T with               *)
(* 1 <= |T| <= 255, after vfs_create_symlink(L, T) returns 0 the link      *)
(* inode has mode LNK|0777, links_count 1 and size |T|, the target is      *)
(* stored inline in the i_block area iff |T| <= 60 and otherwise in the    *)
(* block recorded in i_block[0], and ext2_read_symlink on that inode       *)
(* returns exactly T (NUL-terminated); ext2_read_symlink returns -1 for    *)
(* every non-symlink inode.                                                *)
(***************************************************************************)
\* sizeof(target) of the callers of ext2_read_symlink
TargetBuffer == MAX_NAME + 1

StoredInline(inode, T) ==
    /\ SubSeq(IBlockBytes(inode), 1, Len(T)) = T
    /\ block_bitmap' = block_bitmap

StoredInBlock(inode, T) ==
    /\ inode.i_block[0] \in DataBlocks
    /\ BlockBit(Cur, inode.i_block[0]) = 0
    /\ BlockBit(Post, inode.i_block[0]) = 1
    /\ SubSeq(blocks'[inode.i_block[0]], 1, Len(T)) = T

LinkRoundTrips(ino, T) ==
    LET inode == inode_table'[ino]
    IN /\ inode.i_mode = EXT2_S_IFLNK + 511
       /\ inode.i_links_count = 1
       /\ inode.i_size = Len(T)
       /\ IF Len(T) <= FAST_SYMLINK_MAX THEN StoredInline(inode, T)
          ELSE StoredInBlock(inode, T)
       /\ ext2_read_symlink(Post, inode, TargetBuffer) = [res |-> 0, buf |-> T]

NonLinksRefused ==
    \A n \in DOMAIN inode_table' :
        FileTypeBits(inode_table'[n].i_mode) # EXT2_S_IFLNK
        => ext2_read_symlink(Post, inode_table'[n], TargetBuffer).res = -1

C34_SymlinkRoundTrip ==
    [][/\ (last'.op = "symlink" /\ last'.ret = 0) => LinkRoundTrips(last'.ino, last'.buf)
       /\ NonLinksRefused]_vars

\* a link whose target takes a data block stands beside a regular file
C34_Witness ==
    /\ last.op = "symlink" /\ last.ret = 0 /\ Len(last.buf) = MaxTarget
    /\ inode_table[last.ino].i_block[0] \in DataBlocks
    /\ \E n \in DOMAIN inode_table : inode_table[n].i_mode = EXT2_S_IFREG + MODE_FILE


(***************************************************************************)
(* C35.  A process that called process_sleep(t) is neither TASK_READY nor  *)
(* TASK_RUNNING while system_ticks is below its sleep_until: not after     *)
(* scheduler_tick switches away from it, and not after a send_message      *)
(* addressed to it.  sleep_until is written by process_sleep alone and     *)
(* system_ticks only grows, so a live process whose sleep_until lies ahead *)
(* is one that sleeps.                                                     *)
(***************************************************************************)
Sleeping(a) == a \in heap_used /\ procs[a].sleep_until > system_ticks
C35_SleeperStaysBlocked ==
    \A a \in heap_used :
        Sleeping(a) => procs[a].state \notin {TASK_READY, TASK_RUNNING}


(***************************************************************************)
(* C36.  After every scheduler_tick no TASK_TERMINATED process is left in  *)
(* the process list, whether it was the head, the only process or another; *)
(* process_list and current point to no freed process; the list is a       *)
(* well-formed cycle of live processes; and a process that called          *)
(* process_exit is never TASK_READY or TASK_RUNNING again.                 *)
(***************************************************************************)
Ticked == last.op \in {"sleep", "exit"} \/ (last.op = "resched" /\ last.arg # 0)
Listed ==
    IF process_list = 0 \/ Cycle(Kernel, process_list) = NoCycle THEN {}
    ELSE {Cycle(Kernel, process_list)[i] : i \in 1..Len(Cycle(Kernel, process_list))}
NoTerminatedListed == \A a \in Listed : procs[a].state # TASK_TERMINATED
NoDangling == process_list \in heap_used \cup {0} /\ current \in heap_used \cup {0}
WellFormedCycle ==
    /\ ~panic
    /\ process_list # 0 =>
          /\ Cycle(Kernel, process_list) # NoCycle
          /\ Listed \subseteq heap_used
          /\ Cardinality(Listed) = Len(Cycle(Kernel, process_list))
          /\ current \in Listed \cup {0}
ExitedStayTerminated == \A a \in halted : procs[a].state = TASK_TERMINATED
C36_ExitedIsRemoved ==
    /\ Ticked => NoTerminatedListed /\ NoDangling /\ WellFormedCycle
    /\ ExitedStayTerminated


(***************************************************************************)
(* C37.  The message queue of every process is a bounded FIFO.  Read as    *)
(* the messages from msg_tail up to msg_head, a queue changes only by a    *)
(* send_message that appends to the queue of its destination the message   *)
(* with the sender's pid, len = min(len, 32) and that many bytes of data,  *)
(* and by a receive_message that hands out and removes the first message   *)
(* of the caller's queue; it never holds more than MSG_QUEUE_SIZE - 1 = 7  *)
(* messages.  send_message returns -2 for a full queue and -1 for a pid no *)
(* process has, receive_message returns -1 on an empty queue, and in these *)
(* cases msg_head, msg_tail and the slots of every process stay as they    *)
(* were.                                                                   *)
(***************************************************************************)
Queue(k, a) ==
    [i \in 1..((k.procs[a].msg_head - k.procs[a].msg_tail + MSG_QUEUE_SIZE) % MSG_QUEUE_SIZE) |->
        k.procs[a].msg_queue[(k.procs[a].msg_tail + i - 1) % MSG_QUEUE_SIZE]]
RingsUnchanged ==
    \A a \in heap_used :
        /\ procs'[a].msg_head = procs[a].msg_head
        /\ procs'[a].msg_tail = procs[a].msg_tail
        /\ procs'[a].msg_queue = procs[a].msg_queue
OtherQueuesUnchanged(d) ==
    \A a \in heap_used \ {d} : Queue(KernelPost, a) = Queue(Kernel, a)
Holders(pid) == {a \in Listed : procs[a].pid = pid}
AsSent(m, from_pid, msg) ==
    /\ m.from_pid = from_pid
    /\ m.len = Min(Len(msg), MSG_DATA_SIZE)
    /\ \A i \in 1..Min(Len(msg), MSG_DATA_SIZE) : m.data[i] = msg[i]
Appended(d, from_pid, msg) ==
    /\ Len(Queue(KernelPost, d)) = Len(Queue(Kernel, d)) + 1
    /\ SubSeq(Queue(KernelPost, d), 1, Len(Queue(Kernel, d))) = Queue(Kernel, d)
    /\ AsSent(Queue(KernelPost, d)[Len(Queue(Kernel, d)) + 1], from_pid, msg)
    /\ OtherQueuesUnchanged(d)
SendTo(d) ==
    IF Len(Queue(Kernel, d)) = MSG_QUEUE_SIZE - 1
    THEN last'.ret = 0 - 2 /\ RingsUnchanged
    ELSE last'.ret = 0 /\ Appended(d, last'.pid, last'.msg)
SendIsAppend ==
    last'.op = "send" =>
        IF Holders(last'.arg) = {} THEN last'.ret = 0 - 1 /\ RingsUnchanged
        ELSE \A d \in Holders(last'.arg) : SendTo(d)
ReceiveIsHead ==
    last'.op = "receive" =>
        IF Queue(Kernel, current) = <<>> THEN last'.ret = 0 - 1 /\ RingsUnchanged
        ELSE /\ last'.ret = 0
             /\ last'.out_msg = Head(Queue(Kernel, current))
             /\ Queue(KernelPost, current) = Tail(Queue(Kernel, current))
             /\ OtherQueuesUnchanged(current)
NothingElseQueues ==
    last'.op \notin {"send", "receive"} => \A a \in heap_used : Queue(KernelPost, a) = Queue(Kernel, a)
QueuesBounded == \A a \in heap_used' : Len(Queue(KernelPost, a)) <= MSG_QUEUE_SIZE - 1
C37_BoundedFifo ==
    [][SendIsAppend /\ ReceiveIsHead /\ NothingElseQueues /\ QueuesBounded]_vars

\* a process receives a 32-byte message another process sent, from a queue whose
\* msg_head has wrapped around and that still holds messages
C37_Witness ==
    /\ last.op = "receive" /\ last.ret = 0
    /\ last.out_msg.from_pid # last.pid
    /\ last.out_msg.len = MSG_DATA_SIZE
    /\ procs[current].msg_head < procs[current].msg_tail

====
